---- MODULE Spec2Model ----
(***************************************************************************)
(* Model of the content-synthesis and media-resolution pipeline of         *)
(* backend/ai_service.py (class AIHeavyPresentationService).               *)
(*                                                                         *)
(*   SpecOutline  section validation of generate_outline and               *)
(*                summarize_document (outline mode)                        *)
(*   SpecMedia    _add_media_assets and generate_image, one step per       *)
(*                suspension point, provider outcomes chosen per call      *)
(*   Spec         generate_presentation end to end                         *)
(*   SpecHandler  generate_presentation_from_prompt of backend/main.py     *)
(*   SpecParse    response clean-up and JSON repair of generate_outline,   *)
(*                summarize_document and generate_presentation_gamma_style *)
(*   SpecHeight   _calculate_dynamic_height on one slide                   *)
(***************************************************************************)
EXTENDS Integers, Sequences, FiniteSets, TLC

VARIABLES
    response,          \* outline handlers: the parsed model response (data)
    opc,               \* outline handlers: "idle" | "returned" | "raised"
    outline,           \* outline handlers: what the handler returned or raised
    parse,             \* the model's response as text, and what the clean-up and the
                       \* JSON repair made of it
    current_hf_model,  \* self.current_hf_model (HF_IMAGE_MODEL or the first model)
    slides,            \* the slide dicts handed to _add_media_assets, changed in place
    enhanced,          \* _add_media_assets: the list being built (indices into slides)
    idx,               \* _add_media_assets: 1-based position of the slide in work
    mpc,               \* media position: "idle" | "sleep" | "slide" | "hf_wait" | "done"
    caller,            \* who runs the provider chain: "_add_media_assets" | "generate_image"
    attempts,          \* provider attempts of the image resolution in work, each
                       \* [provider, outcome: "pending" | "ok" | "failed" | "raised" | "url"]
    image,             \* what generate_image returned
    cancelled,         \* a CancelledError was thrown into an awaited provider request
    request,           \* generate_presentation: arguments and the model's answer
    env,               \* generate_presentation: how renderer and providers behave
    pc,                \* generate_presentation: "idle" | "media" | "returned" | "raised"
    deck,              \* generate_presentation: the returned deck
    reply,             \* generate_presentation_from_prompt: the PresentationResponse
    dynamic_height     \* _calculate_dynamic_height: what a call on slides[1] returned

ovars == <<response, opc, outline, parse>>
mvars == <<current_hf_model, slides, enhanced, idx, mpc, caller, attempts, image,
           cancelled>>
dvars == <<request, env, pc, deck, reply, dynamic_height>>
vars == <<ovars, mvars, dvars>>

Min(a, b) == IF a < b THEN a ELSE b
Max(a, b) == IF a > b THEN a ELSE b

(***************************************************************************)
(* Text.  A content string is modelled by its non-empty stripped lines: a  *)
(* line is [bullet, len], bullet meaning that the line starts with the     *)
(* marker and len being the number of characters after the marker. The     *)
(* marker occurs only at the start of a line.                              *)
(***************************************************************************)
RECURSIVE SumLen(_)
SumLen(lines) ==
    IF lines = <<>> THEN 0
    ELSE (IF Head(lines).bullet THEN 2 ELSE 0) + Head(lines).len + SumLen(Tail(lines))

\* len(content): the characters of the lines and the newlines between them
ContentLen(lines) ==
    IF lines = <<>> THEN 0 ELSE SumLen(lines) + (Len(lines) - 1)

\* "•" in content
HasBulletMarker(lines) == \E i \in 1..Len(lines) : lines[i].bullet

(***************************************************************************)
(* Section validation of generate_outline / summarize_document             *)
(***************************************************************************)
MinSections == 8
MaxSectionsOut == 15
MinTitleLen == 5
MinContentLen == 20
BulletLinesKept == 3

\* lines[:3], each line prefixed with the marker unless it has one
NormalizeBullets(lines) ==
    IF HasBulletMarker(lines) THEN lines
    ELSE [i \in 1..Min(BulletLinesKept, Len(lines)) |->
            [bullet |-> TRUE, len |-> lines[i].len]]

\* the loop body: TRUE when the entry is skipped (continue)
SkipsSection(section) ==
    \/ section.titleLen = 0 \/ section.titleLen < MinTitleLen
    \/ ContentLen(section.content) = 0
    \/ ContentLen(section.content) < MinContentLen

\* section.get("title", "").strip() / section.get("content", "").strip():
\* a JSON null under the key is None, and None.strip() raises AttributeError
StripRaises(section) == section.null # "none"

\* the for loop over sections, appending to validated_sections
RECURSIVE ValidateLoop(_, _)
ValidateLoop(sections, validated) ==
    IF sections = <<>> THEN validated
    ELSE IF SkipsSection(Head(sections))
         THEN ValidateLoop(Tail(sections), validated)
         ELSE ValidateLoop(Tail(sections),
                Append(validated,
                    [kind |-> "model", id |-> Head(sections).id,
                     titleLen |-> Head(sections).titleLen,
                     content |-> NormalizeBullets(Head(sections).content)]))

\* the filler entry appended while len(validated_sections) < 8
FillerSection(handler, n) ==
    IF handler = "generate_outline"
    THEN [kind |-> "filler", id |-> n,          \* "Key Insight N"
          titleLen |-> IF n < 10 THEN 13 ELSE 14,
          content |-> << [bullet |-> TRUE, len |-> 15],
                         [bullet |-> TRUE, len |-> 17],
                         [bullet |-> TRUE, len |-> 12] >>]
    ELSE [kind |-> "filler", id |-> n,          \* "Key Point N"
          titleLen |-> IF n < 10 THEN 11 ELSE 12,
          content |-> << [bullet |-> TRUE, len |-> 17],
                         [bullet |-> TRUE, len |-> 17],
                         [bullet |-> TRUE, len |-> 12] >>]

\* while len(validated_sections) < 8: append a filler
RECURSIVE PadLoop(_, _)
PadLoop(handler, validated) ==
    IF Len(validated) < MinSections
    THEN PadLoop(handler, Append(validated, FillerSection(handler, Len(validated) + 1)))
    ELSE validated

PadShort(handler, validated) ==
    IF Len(validated) < MinSections
    THEN [i \in 1..(MinSections - 1) |->
            IF i <= Len(validated) THEN validated[i] ELSE FillerSection(handler, i)]
    ELSE validated

PadSections(handler, validated) == PadLoop(handler, validated)

TruncateLast(validated) ==
    IF Len(validated) > MaxSectionsOut
    THEN SubSeq(validated, Len(validated) - MaxSectionsOut + 1, Len(validated))
    ELSE validated

\* validated_sections[:15]
TruncateSections(validated) ==
    IF Len(validated) > MaxSectionsOut
    THEN SubSeq(validated, 1, MaxSectionsOut)
    ELSE validated

EnsureNoPad(handler, sections) ==
    TruncateSections(ValidateLoop(sections, <<>>))

\* validation, padding and truncation of a non-empty sections list
EnsureSections(handler, sections) ==
    TruncateSections(PadSections(handler, ValidateLoop(sections, <<>>)))

NoOutline == [status |-> "none", handler |-> "", sections |-> <<>>, error |-> ""]

\* the steps from the "sections" check to the return, shared by both
\* handlers: what the handler raises or returns for the parsed data
EnforceSchema(handler, missingMsg, data) ==
    IF ~data.hasSections
    THEN [status |-> "raised", handler |-> handler, sections |-> <<>>,
          error |-> missingMsg]
    ELSE IF data.sections = <<>>
    THEN [status |-> "raised", handler |-> handler, sections |-> <<>>,
          error |-> "Empty sections array"]
    ELSE IF \E i \in 1..Len(data.sections) : StripRaises(data.sections[i])
    THEN [status |-> "raised", handler |-> handler, sections |-> <<>>,
          error |-> "'NoneType' object has no attribute 'strip'"]
    ELSE [status |-> "returned", handler |-> handler,
          sections |-> EnsureSections(handler, data.sections), error |-> ""]

SchemaEnforce(handler, missingMsg) ==
    /\ opc = "idle"
    /\ outline' = EnforceSchema(handler, missingMsg, response)
    /\ opc' = outline'.status
    /\ UNCHANGED <<response, parse, mvars, dvars>>

generate_outline ==
    SchemaEnforce("generate_outline", "Invalid response - missing sections")

summarize_document ==
    SchemaEnforce("summarize_document", "Missing 'sections' key in response")

(***************************************************************************)
(* Model responses for the outline handlers: n entries, all of one valid   *)
(* shape except a run of entries lo..hi of one invalid shape.              *)
(***************************************************************************)
MaxSections == 17

GoodShapes ==
    { [titleLen |-> 12, content |-> << [bullet |-> TRUE, len |-> 18],
                                       [bullet |-> TRUE, len |-> 18],
                                       [bullet |-> TRUE, len |-> 18] >>],
      [titleLen |-> 12, content |-> << [bullet |-> FALSE, len |-> 30] >>],
      [titleLen |-> 5,  content |-> << [bullet |-> FALSE, len |-> 8],
                                       [bullet |-> FALSE, len |-> 8],
                                       [bullet |-> FALSE, len |-> 8],
                                       [bullet |-> FALSE, len |-> 8] >>],
      \* seven plain lines of two characters: 20 characters in all
      [titleLen |-> 12, content |-> [i \in 1..7 |-> [bullet |-> FALSE, len |-> 2]]] }

\* null: which key holds a JSON null ("none" | "title" | "content"); a key
\* that is missing or holds "" has length 0
BadShapes ==
    { [titleLen |-> 4,  content |-> << [bullet |-> TRUE, len |-> 30] >>, null |-> "none"],
      [titleLen |-> 0,  content |-> << [bullet |-> TRUE, len |-> 30] >>, null |-> "none"],
      [titleLen |-> 12, content |-> << [bullet |-> FALSE, len |-> 19] >>, null |-> "none"],
      [titleLen |-> 12, content |-> <<>>, null |-> "none"],
      [titleLen |-> 0,  content |-> << [bullet |-> TRUE, len |-> 30] >>, null |-> "title"],
      [titleLen |-> 12, content |-> <<>>, null |-> "content"] }

ModelSections(n, lo, hi, good, bad) ==
    [i \in 1..n |->
        IF lo <= i /\ i <= hi
        THEN [id |-> i, titleLen |-> bad.titleLen, content |-> bad.content,
              null |-> bad.null]
        ELSE [id |-> i, titleLen |-> good.titleLen, content |-> good.content,
              null |-> "none"]]

OutlineResponses ==
    { [hasSections |-> FALSE, sections |-> <<>>] } \cup
    { [hasSections |-> TRUE, sections |-> ModelSections(n, lo, hi, good, bad)] :
        n \in 0..MaxSections, lo \in 1..(MaxSections + 1), hi \in 0..MaxSections,
        good \in GoodShapes, bad \in BadShapes }

(***************************************************************************)
(* Slides.  A slide dict is a record; a key the dict does not hold has the *)
(* value "ABSENT" (strings) or kind "absent" (chartData).                  *)
(*   title      [src, n, len]    which text it is, and its length          *)
(*   content    [null, marks, len, kw]  marks = count of bullet markers    *)
(*              plus newlines, kw = the interactivity keyword it contains  *)
(*   chartData  [kind, needed, hasType, hasLabels, hasValues, type,        *)
(*               labels, values], kind "absent" | "null" | "dict"          *)
(***************************************************************************)
Absent == "ABSENT"

\* truthiness of a string-valued key read with slide.get(key)
NonEmpty(u) == u # "" /\ u # Absent

NoChartData ==
    [kind |-> "absent", needed |-> FALSE, hasType |-> FALSE, hasLabels |-> FALSE,
     hasValues |-> FALSE, type |-> "", labels |-> <<>>, values |-> <<>>]

NullChartData == [NoChartData EXCEPT !.kind = "null"]

\* {"needed": False}
NotNeeded == [NoChartData EXCEPT !.kind = "dict"]

ChartSpec(type, labels, values) ==
    [kind |-> "dict", needed |-> TRUE, hasType |-> TRUE, hasLabels |-> TRUE,
     hasValues |-> TRUE, type |-> type, labels |-> labels, values |-> values]

(***************************************************************************)
(* _calculate_dynamic_height                                               *)
(***************************************************************************)
\* None.get / None.count: the AttributeError of a null chartData or content
HeightRaises(slide) ==
    slide.content.null \/ slide.chartData.kind = "null"

HeightUnclamped(slide) ==
    800 + slide.content.marks * 40 + ((slide.content.len + slide.title.len) \div 200) * 50
        + (IF slide.chartData.kind = "dict" /\ slide.chartData.needed THEN 300 ELSE 0)

calculate_dynamic_height(slide) ==
    LET has_chart == slide.chartData.kind = "dict" /\ slide.chartData.needed
        bullet_count == slide.content.marks
        text_length == slide.content.len + slide.title.len
        height == 800 + bullet_count * 40 + (text_length \div 200) * 50
                      + (IF has_chart THEN 300 ELSE 0)
    IN  Max(800, Min(1400, height))

(***************************************************************************)
(* _render_chart: the data reference, or "" for None (every exception is   *)
(* caught inside). renderOk: matplotlib drew and saved the figure.         *)
(***************************************************************************)
ChartDataUrl == "data:image/png;base64,chart"

RenderUnchecked(chart_data, renderOk) ==
    IF renderOk THEN ChartDataUrl ELSE ""

render_chart(chart_data, renderOk) ==
    IF \/ chart_data.labels = <<>>
       \/ chart_data.values = <<>>
       \/ Len(chart_data.labels) # Len(chart_data.values)
    THEN ""
    ELSE IF renderOk THEN ChartDataUrl ELSE ""

\* _is_valid_chart_data
is_valid_chart_data(chart_data) ==
    /\ chart_data.kind = "dict"
    /\ chart_data.hasType /\ chart_data.hasLabels /\ chart_data.hasValues
    /\ chart_data.labels # <<>>
    /\ chart_data.values # <<>>
    /\ Len(chart_data.labels) = Len(chart_data.values)

(***************************************************************************)
(* Image providers                                                         *)
(***************************************************************************)
hf_image_models ==
    << "stabilityai/stable-diffusion-2-1",
       "stabilityai/stable-diffusion-xl-base-1.0",
       "runwayml/stable-diffusion-v1-5",
       "prompthero/openjourney-v4",
       "Lykon/dreamshaper-8",
       "SG161222/Realistic_Vision_V5.1_noVAE" >>

\* what one awaited _try_hf_model call can end in; "cancelled": the task was
\* cancelled and asyncio throws CancelledError into the awaited client.post
HfOutcomes == {"200", "503", "non200", "timeout", "exception", "cancelled"}

TryHfModelUncaught(model, outcome) ==
    IF outcome = "200" THEN "data:image/png;base64," \o model
    ELSE IF outcome \in {"timeout", "exception"} THEN "RAISED" ELSE ""

\* _try_hf_model: the data reference for a 200, None ("") for everything else
\* (the bare except turns a timeout, a transport error and a CancelledError
\* into None)
try_hf_model(model, outcome) ==
    IF outcome = "200" THEN "data:image/png;base64," \o model ELSE ""

AlternatesUnfiltered(current) == SubSeq(hf_image_models, 1, 2)

\* the models of "for model in self.hf_image_models[:2]: if model != current"
HfAlternates(current) ==
    LET first2 == SubSeq(hf_image_models, 1, 2)
        keep(m) == m # current
    IN  SelectSeq(first2, keep)

\* _generate_hf_image: the order in which the models are tried
HfChain(current) == <<current>> \o HfAlternates(current)

PollinationsEmpty(prompt) == ""

\* _generate_pollinations_image: prompt.strip() of a null prompt raises and
\* the except branch answers with the fixed background URL
generate_pollinations_image(prompt) ==
    IF prompt = "NULL"
    THEN "https://image.pollinations.ai/prompt/professional%20presentation%20background"
    ELSE "https://image.pollinations.ai/prompt/" \o prompt

\* slide.get("imagePrompt", slide.get('title', 'professional'))
ImagePromptOf(slide) ==
    IF slide.imagePrompt = Absent THEN "title" ELSE slide.imagePrompt

(***************************************************************************)
(* _add_media_assets, one action per suspension point                      *)
(***************************************************************************)
\* lines 1149-1169: the chart branch of one slide
\* (not reached with a null chartData: chart_data.get raises before)
ChartBranch(slide, renderOk) ==
    LET chart_data == slide.chartData
        has_chart == chart_data.kind = "dict" /\ chart_data.needed
    IN  IF has_chart
        THEN IF chart_data.hasType /\ chart_data.hasLabels /\ chart_data.hasValues
             THEN [has_chart |-> TRUE,
                   slide |-> [slide EXCEPT !.imageUrl = "",
                                           !.chartUrl = render_chart(chart_data, renderOk)]]
             ELSE [has_chart |-> FALSE, slide |-> [slide EXCEPT !.chartUrl = ""]]
        ELSE [has_chart |-> FALSE, slide |-> [slide EXCEPT !.chartUrl = ""]]

\* the handler of "except Exception as e" around one slide
CriticalError(slide) ==
    [slide EXCEPT !.chartUrl = IF @ = Absent THEN "" ELSE @,
                  !.imageUrl = IF @ = Absent THEN "" ELSE @,
                  !.layout = IF @ = Absent THEN "split" ELSE @]

AppendNoSleep(slide) ==
    /\ slides' = [slides EXCEPT ![idx] = slide]
    /\ enhanced' = Append(enhanced, idx)
    /\ IF idx < Len(slides)
       THEN idx' = idx + 1 /\ mpc' = "slide"
       ELSE idx' = idx /\ mpc' = "done"

\* lines 1186-1188, or the end of the except handler: the slide is appended
\* and the loop goes to the next slide (which first sleeps) or returns
AppendSlide(slide) ==
    /\ slides' = [slides EXCEPT ![idx] = slide]
    /\ enhanced' = Append(enhanced, idx)
    /\ IF idx < Len(slides)
       THEN idx' = idx + 1 /\ mpc' = "sleep"
       ELSE idx' = idx /\ mpc' = "done"

\* the call of _add_media_assets up to its first suspension point
add_media_assets ==
    /\ mpc = "idle"
    /\ pc = "none"
    /\ caller' = "_add_media_assets"
    /\ enhanced' = <<>>
    /\ idx' = 1
    /\ mpc' = IF slides = <<>> THEN "done" ELSE "slide"
    /\ UNCHANGED <<current_hf_model, slides, attempts, image, cancelled, ovars, dvars>>

\* await asyncio.sleep(0.5) before every slide but the first
Sleep ==
    /\ mpc = "sleep"
    /\ mpc' = "slide"
    /\ UNCHANGED <<current_hf_model, slides, enhanced, idx, caller, attempts, image, cancelled,
                   ovars, dvars>>

\* one slide from the top of the loop body to the first provider request,
\* or to the end of the body when no image is resolved
ProcessSlide(renderOk) ==
    /\ mpc = "slide"
    /\ LET slide == slides[idx] IN
       IF slide.chartData.kind = "null"
       THEN /\ AppendSlide(CriticalError(slide))
            /\ attempts' = <<>>
       ELSE LET b == ChartBranch(slide, renderOk) IN
            IF b.has_chart
            THEN /\ AppendSlide([b.slide EXCEPT !.layout = "split"])
                 /\ attempts' = <<>>
            ELSE IF HeightRaises(b.slide)
            THEN /\ AppendSlide(CriticalError(b.slide))
                 /\ attempts' = <<>>
            ELSE /\ slides' = [slides EXCEPT ![idx] = b.slide]
                 /\ attempts' = << [provider |-> HfChain(current_hf_model)[1],
                                    outcome |-> "pending"] >>
                 /\ mpc' = "hf_wait"
                 /\ UNCHANGED <<enhanced, idx>>
    /\ UNCHANGED <<current_hf_model, caller, image, cancelled, ovars, dvars>>

\* generate_image up to its first provider request
generate_image ==
    /\ mpc = "idle"
    /\ pc = "none"
    /\ caller' = "generate_image"
    /\ attempts' = << [provider |-> HfChain(current_hf_model)[1], outcome |-> "pending"] >>
    /\ mpc' = "hf_wait"
    /\ UNCHANGED <<current_hf_model, slides, enhanced, idx, image, cancelled, ovars, dvars>>

\* the prompt of the image resolution in work
PromptInWork ==
    IF caller = "generate_image" THEN "prompt" ELSE ImagePromptOf(slides[idx])

\* the resolved image reaches the caller of the provider chain
DeliverImage(image_url) ==
    IF caller = "generate_image"
    THEN /\ image' = [status |-> "returned", url |-> image_url]
         /\ mpc' = "done"
         /\ UNCHANGED <<slides, enhanced, idx>>
    ELSE /\ AppendSlide([slides[idx] EXCEPT !.imageUrl = image_url, !.layout = "split"])
         /\ UNCHANGED image

\* the outstanding _try_hf_model request ends with `outcome`; the chain goes
\* on to the next model, or to the URL fallback, or ends with the image.
\* An exception leaving _try_hf_model would reach the caller's except branch:
\* "imageUrl = ''" in _add_media_assets, the fallback in generate_image.
HfResponse(outcome) ==
    /\ mpc = "hf_wait"
    /\ LET n == Len(attempts)
           chain == HfChain(current_hf_model)
           result == try_hf_model(attempts[n].provider, outcome)
           mark(o) == [attempts EXCEPT ![n].outcome = o]
           fallback == [provider |-> "pollinations", outcome |-> "url"]
       IN  IF result = "RAISED"
           THEN IF caller = "generate_image"
                THEN /\ attempts' = Append(mark("raised"), fallback)
                     /\ DeliverImage(generate_pollinations_image(PromptInWork))
                ELSE /\ attempts' = mark("raised")
                     /\ AppendSlide([slides[idx] EXCEPT !.imageUrl = "",
                                                        !.layout = "split"])
                     /\ UNCHANGED image
           ELSE IF result # ""
           THEN /\ attempts' = mark("ok")
                /\ DeliverImage(result)
           ELSE IF n < Len(chain)
           THEN /\ attempts' = Append(mark("failed"),
                                      [provider |-> chain[n + 1], outcome |-> "pending"])
                /\ UNCHANGED <<slides, enhanced, idx, mpc, image>>
           ELSE /\ attempts' = Append(mark("failed"), fallback)
                /\ DeliverImage(generate_pollinations_image(PromptInWork))
    /\ cancelled' = (cancelled \/ outcome = "cancelled")
    /\ UNCHANGED <<current_hf_model, caller, ovars, dvars>>

(***************************************************************************)
(* Idle values of the parts a specification does not run                   *)
(***************************************************************************)
NoImage == [status |-> "none", url |-> ""]
NoDeck == [status |-> "none"]
NoRequest == [path |-> "none"]
NoEnv == [renderOk |-> TRUE, hfDown |-> 0]
NoReply == [status |-> "none"]
NoHeight == [status |-> "none", value |-> 0]

\* data = None
None == <<>>

NoParse == [handler |-> "", kind |-> "", style |-> "", variants |-> <<>>, cut |-> 0,
            raw |-> <<>>, ppc |-> "idle", cleaned |-> <<>>, tried |-> <<>>,
            data |-> None, error |-> "", preview |-> [tokens |-> <<>>, more |-> 0]]

OutlineIdle ==
    /\ response = [hasSections |-> FALSE, sections |-> <<>>]
    /\ opc = "none"
    /\ outline = NoOutline
    /\ parse = NoParse

DeckIdle ==
    /\ request = NoRequest
    /\ env = NoEnv
    /\ pc = "none"
    /\ deck = NoDeck
    /\ reply = NoReply
    /\ dynamic_height = NoHeight

MediaIdle ==
    /\ current_hf_model = hf_image_models[1]
    /\ slides = <<>>
    /\ enhanced = <<>>
    /\ idx = 0
    /\ mpc = "none"
    /\ caller = "none"
    /\ attempts = <<>>
    /\ image = NoImage
    /\ cancelled = FALSE

(***************************************************************************)
(* SpecOutline                                                             *)
(***************************************************************************)
InitOutline ==
    /\ response \in OutlineResponses
    /\ opc = "idle"
    /\ outline = NoOutline
    /\ parse = NoParse
    /\ MediaIdle
    /\ DeckIdle

NextOutline ==
    \/ generate_outline
    \/ summarize_document

SpecOutline == InitOutline /\ [][NextOutline]_vars

(***************************************************************************)
(* SpecMedia: slide lists of up to MaxSlides slides                        *)
(***************************************************************************)
MaxSlides == 2

ModelTitle(i) == [src |-> "model", n |-> i, len |-> 24]
PlainContent == [null |-> FALSE, marks |-> 5, len |-> 90, kw |-> "none"]
NullContent == [null |-> TRUE, marks |-> 0, len |-> 0, kw |-> "none"]
CompareContent == [null |-> FALSE, marks |-> 3, len |-> 410, kw |-> "compare"]

ChartShapes ==
    { NoChartData, NullChartData, NotNeeded,
      ChartSpec("bar", <<"Q1", "Q2">>, <<10, 20>>),
      ChartSpec("pie", <<"Q1", "Q2">>, <<10>>),
      ChartSpec("line", <<>>, <<>>),
      [ChartSpec("bar", <<"Q1", "Q2">>, <<>>) EXCEPT !.hasValues = FALSE],
      [ChartSpec("", <<"Q1">>, <<10>>) EXCEPT !.hasType = FALSE],
      [ChartSpec("bar", <<"Q1">>, <<10>>) EXCEPT !.needed = FALSE] }

\* what a slide of a model answer can look like
SlideShapes ==
    { [content |-> PlainContent, chartData |-> cd, imagePrompt |-> "prompt",
       id |-> Absent, layout |-> Absent] : cd \in ChartShapes } \cup
    { [content |-> NullContent, chartData |-> NotNeeded, imagePrompt |-> "prompt",
       id |-> Absent, layout |-> Absent],
      [content |-> PlainContent, chartData |-> NoChartData, imagePrompt |-> Absent,
       id |-> "model-id", layout |-> "split"],
      [content |-> CompareContent, chartData |-> NotNeeded, imagePrompt |-> "NULL",
       id |-> "", layout |-> "hero"] }

ModelSlide(i, shape) ==
    [title |-> ModelTitle(i), content |-> shape.content, chartData |-> shape.chartData,
     imagePrompt |-> shape.imagePrompt, imageUrl |-> Absent, chartUrl |-> Absent,
     layout |-> shape.layout, id |-> shape.id]

SlideLists ==
    UNION { { [i \in 1..n |-> ModelSlide(i, f[i])] : f \in [1..n -> SlideShapes] } :
            n \in 0..MaxSlides }

\* HF_IMAGE_MODEL unset, set to the second listed model, set to another model
CurrentModelChoices == { hf_image_models[1], hf_image_models[2], hf_image_models[3] }

InitMedia ==
    /\ current_hf_model \in CurrentModelChoices
    /\ slides \in SlideLists
    /\ enhanced = <<>>
    /\ idx = 0
    /\ mpc = "idle"
    /\ caller = "none"
    /\ attempts = <<>>
    /\ image = NoImage
    /\ cancelled = FALSE
    /\ OutlineIdle
    /\ DeckIdle

NextMedia ==
    \/ add_media_assets
    \/ Sleep
    \/ \E renderOk \in BOOLEAN : ProcessSlide(renderOk)
    \/ generate_image
    \/ \E outcome \in HfOutcomes : HfResponse(outcome)

SpecMedia == InitMedia /\ [][NextMedia]_vars

(***************************************************************************)
(* generate_presentation: building the slides                              *)
(***************************************************************************)
\* len("business professionals"), the default audience
AudienceLen == 22

Text(marks, len) == [null |-> FALSE, marks |-> marks, len |-> len, kw |-> "none"]

NewSlide(title, content, imagePrompt, layout, chartData) ==
    [title |-> title, content |-> content, chartData |-> chartData,
     imagePrompt |-> imagePrompt, imageUrl |-> Absent, chartUrl |-> Absent,
     layout |-> layout, id |-> Absent]

\* _generate_contextual_chart: the chart chosen by the vocabulary of
\* title + content (words: "trend" | "compare" | "distribution" | "none")
generate_contextual_chart(words) ==
    CASE words = "trend" -> ChartSpec("line", <<"Q1", "Q2", "Q3", "Q4">>, <<65, 72, 84, 91>>)
      [] words = "compare" -> ChartSpec("bar", <<"Before", "After", "Industry Avg">>,
                                        <<55, 89, 72>>)
      [] words = "distribution" -> ChartSpec("pie", <<"Segment A", "Segment B", "Segment C">>,
                                             <<45, 35, 20>>)
      [] OTHER -> ChartSpec("bar", <<"Efficiency", "Quality", "Speed", "Satisfaction">>,
                            <<78, 85, 92, 88>>)

\* the chart vocabulary found in a content with keyword family kw (the titles
\* of the model carry none)
ChartWords(kw) ==
    CASE kw = "timeline" -> "trend"
      [] kw = "compare" -> "compare"
      [] OTHER -> "none"

\* _create_intelligent_slide(topic, index, audience), index 0-based
create_intelligent_slide(topicLen, index) ==
    NewSlide([src |-> "intelligent", n |-> index, len |-> 13 + topicLen + AudienceLen],
             Text(7, 97 + topicLen), "prompt", "split",
             IF index % 3 = 0 THEN generate_contextual_chart("none") ELSE NotNeeded)

\* the six core topics of _create_intelligent_fallback: title and content
\* lengths without the topic
CoreTopics ==
    << [t |-> 33, c |-> 89], [t |-> 40, c |-> 95], [t |-> 33, c |-> 88],
       [t |-> 41, c |-> 95], [t |-> 37, c |-> 91], [t |-> 24, c |-> 87] >>

CoreCountShort(num_slides) == Max(0, Min(Len(CoreTopics), num_slides - 8))

\* len(core_topics[:num_slides-5])
FallbackCoreCount(num_slides) == Max(0, Min(Len(CoreTopics), num_slides - 5))

FourFactors == <<"Factor 1", "Factor 2", "Factor 3", "Factor 4">>

\* _create_intelligent_fallback(topic, num_slides, audience, purpose)["slides"];
\* the four values random.randint(70, 95) of a core chart are shown as 70
create_intelligent_fallback(topicLen, num_slides) ==
    LET n == Max(8, Min(15, num_slides))
        fb(k, tl, c, layout, cd) ==
            NewSlide([src |-> "fallback", n |-> k, len |-> tl], c, "prompt", layout, cd)
        opening ==
            << fb(1, 29 + topicLen, Text(0, 23 + AudienceLen), "center", NotNeeded),
               fb(2, 16 + topicLen, Text(5, 102 + AudienceLen), "split",
                  ChartSpec("bar", <<"2022", "2023", "2024", "2025">>, <<55, 68, 82, 95>>)),
               fb(3, 16 + topicLen, Text(7, 130), "split", NotNeeded) >>
        ncore == FallbackCoreCount(n)
        core == [i \in 1..ncore |->
                    fb(3 + i, CoreTopics[i].t + topicLen, Text(7, CoreTopics[i].c), "split",
                       IF (i - 1) % 2 = 0
                       THEN ChartSpec("bar", FourFactors, <<70, 70, 70, 70>>)
                       ELSE NotNeeded)]
        closing ==
            << fb(4 + ncore, 32, Text(7, 117 + topicLen), "split",
                  ChartSpec("pie", <<"Strategy", "Execution", "Team", "Technology">>,
                            <<30, 35, 20, 15>>)),
               fb(5 + ncore, 16, Text(4, 92 + topicLen), "center", NotNeeded) >>
        all == opening \o core \o closing
    IN  SubSeq(all, 1, Min(n, Len(all)))

\* while len(slides) < num_slides: slides.append(_create_intelligent_slide(...))
RECURSIVE PadSlides(_, _, _)
PadSlides(slides_, num_slides, topicLen) ==
    IF Len(slides_) < num_slides
    THEN PadSlides(Append(slides_, create_intelligent_slide(topicLen, Len(slides_))),
                   num_slides, topicLen)
    ELSE slides_

NoClamp(num_slides) == num_slides

\* num_slides = max(8, min(15, num_slides))
ClampSlides(num_slides) == Max(8, Min(15, num_slides))

\* generate_presentation_gamma_style(...)["slides"]
\* answer.kind: "call_failed" | "no_json" | "bad_json" | "parsed";
\* answer.slidesKey: "absent" | "nested" | "null" | "list"
gamma_style_slides(req) ==
    LET num_slides == ClampSlides(req.num_slides)
        answer == req.answer
    IN  IF answer.kind = "parsed" /\ answer.slidesKey # "null"
        THEN LET got == IF answer.slidesKey = "list" THEN answer.slides ELSE <<>>
             IN  IF Len(got) < num_slides THEN PadSlides(got, num_slides, req.topicLen)
                 ELSE IF Len(got) > num_slides THEN SubSeq(got, 1, num_slides)
                 ELSE got
        ELSE create_intelligent_fallback(req.topicLen, num_slides)

\* the bullet formatting of a section's content: the first 5 sentences as
\* bullets when the content does not start with a marker, else the content
\* itself, else `default`. A section content is [empty, bulleted, sentences,
\* marks, len].
FormatSectionContent(c, default) ==
    IF ~c.empty /\ ~c.bulleted
    THEN LET k == Min(5, c.sentences)
         IN  Text(IF k = 0 THEN 0 ELSE 2 * k - 1, IF k = 0 THEN 0 ELSE c.len + 2 * k)
    ELSE IF c.empty THEN default ELSE Text(c.marks, c.len)

SectionTitle(section, i) == [src |-> "section", n |-> i, len |-> section.titleLen]

chart_positions == {2, 5, 8, 11, 14}

KeepModelSlide(slide, i, outline_sections) == slide

\* the loop of lines 748-774 over the model's slides (i is 0-based)
FixOutlineSlide(slide, i, outline_sections) ==
    IF i >= Len(outline_sections) THEN slide
    ELSE LET section == outline_sections[i + 1]
             content == IF slide.content.null \/ slide.content.len < 20
                        THEN IF ~section.content.empty /\ ~section.content.bulleted
                             THEN FormatSectionContent(section.content, Text(0, 0))
                             ELSE Text(section.content.marks, section.content.len)
                        ELSE slide.content
             s1 == [slide EXCEPT !.title = SectionTitle(section, i + 1),
                                 !.content = content]
         IN  IF i \in chart_positions
             THEN [s1 EXCEPT !.chartData = generate_contextual_chart(ChartWords(content.kw)),
                             !.imagePrompt = ""]
             ELSE [s1 EXCEPT
                     !.chartData = IF @.kind # "dict" \/ ~@.needed THEN NotNeeded ELSE @,
                     !.imagePrompt = IF @ \in {Absent, "NULL", ""} THEN "prompt" ELSE @]

\* the slide added for section i (0-based) when the model returned too few
OutlineNewSlide(i, outline_sections) ==
    LET section == outline_sections[i + 1]
    IN  NewSlide(SectionTitle(section, i + 1),
                 FormatSectionContent(section.content, Text(5, 44)),
                 IF i \in chart_positions THEN "" ELSE "prompt", "split",
                 IF i \in chart_positions THEN generate_contextual_chart("none")
                 ELSE NotNeeded)

\* _create_fallback_from_outline(outline_sections, theme, image_style)["slides"]
create_fallback_from_outline(outline_sections) ==
    [i \in 1..Len(outline_sections) |->
        NewSlide(SectionTitle(outline_sections[i], i),
                 FormatSectionContent(outline_sections[i].content, Text(4, 44)),
                 "prompt", "split", NotNeeded)]

\* _generate_from_outline_sections(...)["slides"]
from_outline_sections_slides(req) ==
    LET outline_sections == req.outline_sections
        num_slides == Len(outline_sections)
        answer == req.answer
    IN  IF answer.kind = "parsed" /\ answer.slidesKey # "null"
        THEN LET got == IF answer.slidesKey = "list" THEN answer.slides ELSE <<>>
                 fixed == [j \in 1..Len(got) |-> FixOutlineSlide(got[j], j - 1, outline_sections)]
             IN  IF Len(fixed) < num_slides
                 THEN [j \in 1..num_slides |->
                         IF j <= Len(fixed) THEN fixed[j]
                         ELSE OutlineNewSlide(j - 1, outline_sections)]
                 ELSE IF Len(fixed) > num_slides THEN SubSeq(fixed, 1, num_slides)
                 ELSE fixed
        ELSE create_fallback_from_outline(outline_sections)

\* generate_presentation, lines 561-579: presentation_data["slides"]
presentation_slides(req) ==
    IF req.outline_sections # <<>>
    THEN from_outline_sections_slides(req)
    ELSE gamma_style_slides(req)

(***************************************************************************)
(* generate_presentation: theming, height, interactivity, ids, metadata    *)
(***************************************************************************)
\* interactive_manager.enhance_slide_with_interactivity(slide), by the first
\* keyword family found in the content: the layout and the number of nested
\* cards and toggles it leaves on the slide
Interactivity(slide, include_interactive) ==
    LET kw == IF include_interactive THEN slide.content.kw ELSE "none"
    IN  CASE kw = "compare" -> [layout |-> "gallery", nestedCards |-> 2, toggles |-> 0]
          [] kw = "timeline" -> [layout |-> "timeline", nestedCards |-> 3, toggles |-> 0]
          [] kw = "detail" -> [layout |-> slide.layout, nestedCards |-> 0, toggles |-> 2]
          [] OTHER -> [layout |-> slide.layout, nestedCards |-> 0, toggles |-> 0]

\* slide.get("id") or f"slide_{i+1}_{timestamp}"
SlideId(slide, i) ==
    IF NonEmpty(slide.id) THEN slide.id ELSE "slide_" \o ToString(i) \o "_ts"

\* the body of the loop of lines 590-603 for the slide at 1-based position i
FinalSlide(slide, i, include_interactive) ==
    LET inter == Interactivity(slide, include_interactive)
    IN  [title |-> slide.title, content |-> slide.content, chartData |-> slide.chartData,
         imagePrompt |-> slide.imagePrompt, imageUrl |-> slide.imageUrl,
         chartUrl |-> slide.chartUrl, layout |-> inter.layout,
         nestedCards |-> inter.nestedCards, toggles |-> inter.toggles,
         themed |-> TRUE, height |-> calculate_dynamic_height(slide),
         id |-> SlideId(slide, i)]

TotalSlides(final_slides) == Len(final_slides)

\* the returned dict, lines 609-624
Assemble(final_slides, include_interactive) ==
    [status |-> "returned",
     slides |-> final_slides,
     metadata |-> [totalSlides |-> TotalSlides(final_slides),
                   hasInteractiveFeatures |-> include_interactive,
                   hasCharts |-> \E i \in 1..Len(final_slides) :
                                    final_slides[i].chartUrl # Absent,
                   hasImages |-> \A i \in 1..Len(final_slides) :
                                    final_slides[i].imageUrl # Absent]]

\* generate_presentation up to the first suspension point of _add_media_assets
\* (the awaited model call has been answered with request.answer)
StartPresentation(req) ==
    /\ slides' = presentation_slides(req)
    /\ caller' = "_add_media_assets"
    /\ enhanced' = <<>>
    /\ idx' = 1
    /\ mpc' = IF slides' = <<>> THEN "done" ELSE "slide"
    /\ pc' = "media"
    /\ UNCHANGED <<current_hf_model, attempts, image, cancelled, env, deck, dynamic_height,
                   ovars>>

generate_presentation ==
    /\ pc = "idle"
    /\ StartPresentation(request)
    /\ UNCHANGED <<request, reply>>

\* how the provider asked by the n-th attempt of a chain answers in this run
EnvOutcome == IF Len(attempts) > env.hfDown THEN "200" ELSE "503"

\* generate_presentation after _add_media_assets returned: lines 586-624.
\* _calculate_dynamic_height raising on a slide ends the call with that
\* exception, nothing is returned.
generate_presentation_return ==
    /\ pc = "media"
    /\ mpc = "done"
    /\ LET enhanced_slides == [k \in 1..Len(enhanced) |-> slides[enhanced[k]]]
       IN  IF \E k \in 1..Len(enhanced_slides) : HeightRaises(enhanced_slides[k])
           THEN /\ pc' = "raised"
                /\ deck' = [status |-> "raised", error |-> "AttributeError"]
           ELSE /\ pc' = "returned"
                /\ deck' = Assemble([k \in 1..Len(enhanced_slides) |->
                                        FinalSlide(enhanced_slides[k], k,
                                                   request.include_interactive)],
                                    request.include_interactive)
    /\ UNCHANGED <<request, env, reply, dynamic_height, ovars, mvars>>

(***************************************************************************)
(* Spec: calls of generate_presentation                                    *)
(***************************************************************************)
MaxModelSlides == 16
MaxOutline == 4

NumSlidesChoices == {5, 10, 20}

Answers(maxSlides) ==
    { [kind |-> k, slidesKey |-> "absent", slides |-> <<>>] :
        k \in {"call_failed", "no_json", "bad_json"} } \cup
    { [kind |-> "parsed", slidesKey |-> k, slides |-> <<>>] : k \in {"absent", "null"} } \cup
    { [kind |-> "parsed", slidesKey |-> k,
       slides |-> [i \in 1..n |-> ModelSlide(i, shape)]] :
        k \in {"list", "nested"}, n \in 0..maxSlides, shape \in SlideShapes }

SectionContents ==
    { [empty |-> TRUE, bulleted |-> FALSE, sentences |-> 0, marks |-> 0, len |-> 0],
      [empty |-> FALSE, bulleted |-> TRUE, sentences |-> 3, marks |-> 5, len |-> 120],
      [empty |-> FALSE, bulleted |-> FALSE, sentences |-> 6, marks |-> 0, len |-> 200] }

TopicRequests ==
    { [path |-> "topic", num_slides |-> ns, topicLen |-> 6, include_interactive |-> TRUE,
       outline_sections |-> <<>>, answer |-> a] :
        ns \in NumSlidesChoices, a \in Answers(MaxModelSlides) }

OutlineRequests ==
    { [path |-> "outline", num_slides |-> 8, topicLen |-> 6, include_interactive |-> ii,
       outline_sections |-> [i \in 1..n |-> [titleLen |-> 20, content |-> c]],
       answer |-> a] :
        ii \in BOOLEAN, n \in 1..MaxOutline, c \in SectionContents,
        a \in Answers(MaxOutline + 1) }

Envs == [renderOk : BOOLEAN, hfDown : 0..Len(HfChain(hf_image_models[1]))]

Init ==
    /\ request \in TopicRequests \cup OutlineRequests
    /\ env \in Envs
    /\ pc = "idle"
    /\ deck = NoDeck
    /\ reply = NoReply
    /\ dynamic_height = NoHeight
    /\ current_hf_model = hf_image_models[1]
    /\ slides = <<>>
    /\ enhanced = <<>>
    /\ idx = 0
    /\ mpc = "idle"
    /\ caller = "none"
    /\ attempts = <<>>
    /\ image = NoImage
    /\ cancelled = FALSE
    /\ OutlineIdle

Next ==
    \/ generate_presentation
    \/ Sleep
    \/ ProcessSlide(env.renderOk)
    \/ HfResponse(EnvOutcome)
    \/ generate_presentation_return

Spec == Init /\ [][Next]_vars

(***************************************************************************)
(* main.py: generate_presentation_from_prompt, the body of the             *)
(* /api/generate-presentation handler                                      *)
(***************************************************************************)
\* if num_slides is None: num_slides = 10; num_slides = max(8, min(15, num_slides))
\* asked: [given, value], given = FALSE for None
HandlerNumSlides(asked) ==
    Max(8, Min(15, IF asked.given THEN asked.value ELSE 10))

FallbackOneMore(num_slides) ==
    LET n == Max(8, Min(15, num_slides))
    IN  [i \in 1..(n + 1) |->
            [title |-> [src |-> "main_fallback", n |-> i, len |-> 10],
             layout |-> IF i = 1 \/ i = n + 1 THEN "center" ELSE "left",
             imageUrl |-> "https://source.unsplash.com/1200x800/", chartUrl |-> Absent]]

\* create_fallback_presentation(prompt, num_slides).slides: a title slide,
\* the content slides of range(1, num_slides - 1) and a conclusion slide
create_fallback_presentation(num_slides) ==
    LET n == Max(8, Min(15, num_slides))
    IN  [i \in 1..n |->
            [title |-> [src |-> "main_fallback", n |-> i, len |-> 10],
             layout |-> IF i = 1 \/ i = n THEN "center" ELSE "left",
             imageUrl |-> "https://source.unsplash.com/1200x800/", chartUrl |-> Absent]]

\* ai_service.generate_image(image_prompt) with the providers of this run
HandlerImage(prompt) ==
    LET chain == HfChain(current_hf_model)
    IN  IF env.hfDown < Len(chain)
        THEN try_hf_model(chain[env.hfDown + 1], "200")
        ELSE generate_pollinations_image(prompt)

\* the loop body of lines 141-176: one SlideRequest
SlideRequest(slide_data) ==
    LET has_chart == slide_data.chartData.kind = "dict" /\ slide_data.chartData.needed
        image_url == IF slide_data.imageUrl = Absent THEN "" ELSE slide_data.imageUrl
    IN  [title |-> slide_data.title,
         layout |-> IF slide_data.layout = Absent THEN "left" ELSE slide_data.layout,
         imageUrl |-> IF ~has_chart /\ image_url = ""
                      THEN HandlerImage(IF NonEmpty(slide_data.imagePrompt)
                                        /\ slide_data.imagePrompt # "NULL"
                                        THEN slide_data.imagePrompt ELSE "title")
                      ELSE IF has_chart THEN "" ELSE image_url,
         chartUrl |-> IF slide_data.chartUrl = Absent THEN "" ELSE slide_data.chartUrl]

\* the call of the handler body up to the first suspension point of
\* _add_media_assets
generate_presentation_from_prompt ==
    /\ pc = "asked"
    /\ request' = [request EXCEPT !.num_slides = HandlerNumSlides(request.asked)]
    /\ StartPresentation(request')
    /\ UNCHANGED reply

\* the handler body after ai_service.generate_presentation returned or
\* raised. responseOk: PresentationResponse(...) accepts the deck's title and
\* theme (a null title fails its validation and leads to the except branch).
generate_presentation_from_prompt_return(responseOk) ==
    /\ pc \in {"returned", "raised"}
    /\ reply.status = "pending"
    /\ IF pc = "returned" /\ responseOk
       THEN reply' = [status |-> "returned", source |-> "ai_service",
                      slides |-> [k \in 1..Len(deck.slides) |->
                                    SlideRequest(deck.slides[k])]]
       ELSE reply' = [status |-> "returned", source |-> "fallback",
                      slides |-> create_fallback_presentation(request.num_slides)]
    /\ UNCHANGED <<request, env, pc, deck, dynamic_height, ovars, mvars>>

(***************************************************************************)
(* SpecHandler: calls of generate_presentation_from_prompt                 *)
(***************************************************************************)
\* num_slides: None, below 8, in range, above 15
AskedChoices ==
    { [given |-> FALSE, value |-> 0], [given |-> TRUE, value |-> 3],
      [given |-> TRUE, value |-> 12], [given |-> TRUE, value |-> 20] }

HandlerRequests ==
    { [path |-> "topic", asked |-> a, num_slides |-> 0, topicLen |-> 6,
       include_interactive |-> TRUE, outline_sections |-> <<>>, answer |-> ans] :
        a \in AskedChoices, ans \in Answers(MaxModelSlides) }

HandlerEnvs == { e \in Envs : e.hfDown \in {0, Len(HfChain(hf_image_models[1]))} }

InitHandler ==
    /\ request \in HandlerRequests
    /\ env \in HandlerEnvs
    /\ pc = "asked"
    /\ deck = NoDeck
    /\ reply = [status |-> "pending"]
    /\ dynamic_height = NoHeight
    /\ MediaIdle
    /\ OutlineIdle

NextHandler ==
    \/ generate_presentation_from_prompt
    \/ Sleep
    \/ ProcessSlide(env.renderOk)
    \/ HfResponse(EnvOutcome)
    \/ generate_presentation_return
    \/ \E responseOk \in BOOLEAN : generate_presentation_from_prompt_return(responseOk)

SpecHandler == InitHandler /\ [][NextHandler]_vars

(***************************************************************************)
(* Response text.  A model response is a sequence of tokens, one token per *)
(* character that matters to the clean-up and the JSON repair, and one per *)
(* run of other characters:                                                *)
(*   "{" "}" "[" "]" "," ":"   the character itself, also inside a string  *)
(*   "Q"                       a double quote                              *)
(*   "SP" "NL"                 a run of blanks, a newline                  *)
(*   "FENCE"                   a code fence (three backquotes); the tag    *)
(*                             after it is the run "json"                  *)
(*   any other string          a run of ordinary characters                *)
(***************************************************************************)
IsWs(c) == c \in {"SP", "NL"}

\* the number of characters a token stands for
TokLen(c) ==
    CASE c \in {"{", "}", "[", "]", ",", ":", "Q", "NL"} -> 1
      [] c = "SP" -> 2
      [] c = "FENCE" -> 3
      [] c = "json" -> 4
      [] c \in {"c1", "c2", "c3"} -> 240
      [] OTHER -> 8

Largest(S) == CHOOSE x \in S : \A y \in S : x >= y
Smallest(S) == CHOOSE x \in S : \A y \in S : x <= y

\* len(t[lo-1:hi]): the characters of the tokens lo..hi, summed by halves
RECURSIVE SpanLen(_, _, _)
SpanLen(t, lo, hi) ==
    IF lo > hi THEN 0
    ELSE IF lo = hi THEN TokLen(t[lo])
    ELSE LET mid == (lo + hi) \div 2
         IN  SpanLen(t, lo, mid) + SpanLen(t, mid + 1, hi)

\* the tokens of t at the positions in keep, gathered by halves
RECURSIVE Pick(_, _, _, _)
Pick(t, keep, lo, hi) ==
    IF lo > hi THEN <<>>
    ELSE IF lo = hi THEN (IF lo \in keep THEN <<t[lo]>> ELSE <<>>)
    ELSE LET mid == (lo + hi) \div 2
         IN  Pick(t, keep, lo, mid) \o Pick(t, keep, mid + 1, hi)

\* the first position >= i that holds no blank or newline (Len(t) + 1 when
\* there is none)
SkipWs(t, i) ==
    CHOOSE j \in i..(Len(t) + 1) :
        (j > Len(t) \/ ~IsWs(t[j])) /\ \A k \in i..(j - 1) : IsWs(t[k])

\* str.strip()
Strip(t) ==
    LET a == SkipWs(t, 1)
        b == CHOOSE j \in 0..Len(t) :
                (j = 0 \/ ~IsWs(t[j])) /\ \A k \in (j + 1)..Len(t) : IsWs(t[k])
    IN  IF a > b THEN <<>> ELSE SubSeq(t, a, b)

\* the first position >= i holding token c, or 0
Find(t, c, i) ==
    IF \E j \in i..Len(t) : t[j] = c
    THEN CHOOSE j \in i..Len(t) : t[j] = c /\ \A k \in i..(j - 1) : t[k] # c
    ELSE 0

Count(t, c) == Cardinality({i \in 1..Len(t) : t[i] = c})

(***************************************************************************)
(* json.loads on tokens: a value is a string, an object or an array; a     *)
(* position is returned for the token after the value, 0 for a decode      *)
(* error.  A raw newline inside a string is a decode error.                *)
(***************************************************************************)
\* i: the position after the opening quote
StringEnd(t, i) ==
    LET ends == {j \in i..Len(t) : t[j] \in {"Q", "NL"}}
    IN  IF ends = {} \/ t[Smallest(ends)] = "NL" THEN 0 ELSE Smallest(ends) + 1

RECURSIVE ParseValue(_, _)
RECURSIVE ParseMembers(_, _)
RECURSIVE ParseElements(_, _)

ParseValue(t, i) ==
    IF i > Len(t) THEN 0
    ELSE CASE t[i] = "Q" -> StringEnd(t, i + 1)
           [] t[i] = "{" -> LET j == SkipWs(t, i + 1)
                            IN  IF j <= Len(t) /\ t[j] = "}" THEN j + 1
                                ELSE ParseMembers(t, j)
           [] t[i] = "[" -> LET j == SkipWs(t, i + 1)
                            IN  IF j <= Len(t) /\ t[j] = "]" THEN j + 1
                                ELSE ParseElements(t, j)
           [] OTHER -> 0

\* i: the position where a "key": value member has to start
ParseMembers(t, i) ==
    IF i > Len(t) \/ t[i] # "Q" THEN 0
    ELSE LET k == StringEnd(t, i + 1)
             c == SkipWs(t, k)
         IN  IF k = 0 \/ c > Len(t) \/ t[c] # ":" THEN 0
             ELSE LET v == ParseValue(t, SkipWs(t, c + 1))
                      e == SkipWs(t, v)
                  IN  IF v = 0 \/ e > Len(t) THEN 0
                      ELSE IF t[e] = "}" THEN e + 1
                      ELSE IF t[e] = "," THEN ParseMembers(t, SkipWs(t, e + 1))
                      ELSE 0

\* i: the position where an element has to start
ParseElements(t, i) ==
    LET v == ParseValue(t, i)
        e == SkipWs(t, v)
    IN  IF v = 0 \/ e > Len(t) THEN 0
        ELSE IF t[e] = "]" THEN e + 1
        ELSE IF t[e] = "," THEN ParseElements(t, SkipWs(t, e + 1))
        ELSE 0

\* json.loads(t) does not raise JSONDecodeError
JsonOk(t) ==
    LET v == ParseValue(t, SkipWs(t, 1))
    IN  v # 0 /\ SkipWs(t, v) = Len(t) + 1

\* json.loads(t): None where the call raises JSONDecodeError, else the value,
\* written as the text without the blanks and newlines between its tokens
\* (those inside a string, after an odd number of quotes, are kept)
json_loads(t) ==
    IF ~JsonOk(t) THEN None
    ELSE Pick(t, {i \in 1..Len(t) : ~IsWs(t[i]) \/ Count(SubSeq(t, 1, i), "Q") % 2 = 1},
              1, Len(t))

\* "not data": None, {}, [] and "" are falsy
Falsy(data) == data \in {None, <<"{", "}">>, <<"[", "]">>, <<"Q", "Q">>}

(***************************************************************************)
(* Response clean-up of generate_outline and summarize_document            *)
(***************************************************************************)
\* re.sub(r'^FENCEjson\s*', '', response, flags=re.MULTILINE) for tagged and
\* re.sub(r'^FENCE\s*', '', response, flags=re.MULTILINE) otherwise: a fence
\* at the start of a line goes, with its tag and the blanks and newlines
\* after it
DropOpeningFences(t, tagged) ==
    LET len == IF tagged THEN 2 ELSE 1
        OpeningFence(p) ==
            /\ p = 1 \/ t[p - 1] = "NL"
            /\ t[p] = "FENCE"
            /\ tagged => (p + 1 <= Len(t) /\ t[p + 1] = "json")
        gone == {i \in 1..Len(t) :
                    \E p \in 1..i : OpeningFence(p) /\ i < SkipWs(t, p + len)}
    IN  Pick(t, (1..Len(t)) \ gone, 1, Len(t))

\* re.sub(r'\s*FENCE$', '', response, flags=re.MULTILINE): a fence at the
\* end of a line goes, with the blanks and newlines before it
DropClosingFences(t) ==
    LET gone == {i \in 1..Len(t) :
                    LET j == SkipWs(t, i)
                    IN  /\ j <= Len(t) /\ t[j] = "FENCE"
                        /\ j = Len(t) \/ t[j + 1] = "NL"}
    IN  Pick(t, (1..Len(t)) \ gone, 1, Len(t))

\* the cleaning steps, from response.strip() to the markdown prefix
\* (response[8:].strip() when the text starts with "markdown")
CleanResponse(t) ==
    LET stripped == Strip(t)
        noTagged == DropOpeningFences(stripped, TRUE)
        noOpening == DropOpeningFences(noTagged, FALSE)
        cleaned == Strip(DropClosingFences(noOpening))
    IN  IF cleaned # <<>> /\ cleaned[1] = "markdown" THEN Strip(Tail(cleaned))
        ELSE cleaned

(***************************************************************************)
(* Try 2: regex extraction.  Each operator gives the matched text, or None *)
(* where re.search finds no match.                                         *)
(***************************************************************************)
\* the text "sections" in double quotes starts at position i
IsSectionsKey(t, i) ==
    i + 2 <= Len(t) /\ t[i] = "Q" /\ t[i + 1] = "sections" /\ t[i + 2] = "Q"

\* generate_outline: re.search(r'\{.*?"sections".*?\[.*?\].*?\}', response,
\* re.DOTALL); every part is lazy, so each piece is the first one after the
\* piece before it, and the match starts at the first "{"
OutlineRegexMatch(t) ==
    LET s == Find(t, "{", 1)
        keys == {j \in (s + 1)..Len(t) : IsSectionsKey(t, j)}
        k == IF s = 0 \/ keys = {} THEN 0 ELSE Smallest(keys)
        b == IF k = 0 THEN 0 ELSE Find(t, "[", k + 3)
        r == IF b = 0 THEN 0 ELSE Find(t, "]", b + 1)
        e == IF r = 0 THEN 0 ELSE Find(t, "}", r + 1)
    IN  IF e = 0 THEN None ELSE SubSeq(t, s, e)

\* summarize_document: json_pattern =
\* r'\{[^{}]*"sections"[^{}]*\[[^\]]*\][^{}]*\}'.  re.search takes the
\* leftmost "{" with a match; the greedy classes then take the last key and
\* the last "[" that still give a match.
JsonPatternMatch(t) ==
    LET \* [^{}]* between positions a and b (exclusive)
        BraceFree(a, b) == \A i \in (a + 1)..(b - 1) : t[i] \notin {"{", "}"}
        \* after the "[" at b: the first "]", then "}" as the first brace
        PatternEnd(b) ==
            LET r == Find(t, "]", b + 1)
                e == IF r = 0 THEN 0 ELSE Find(t, "}", r + 1)
            IN  IF e # 0 /\ BraceFree(r, e) THEN e ELSE 0
        \* the "[" positions that complete a match whose key starts at k
        PatternBrackets(k) ==
            { b \in (k + 3)..Len(t) :
                t[b] = "[" /\ BraceFree(k + 2, b) /\ PatternEnd(b) # 0 }
        \* the key positions that give a match starting at the "{" at s
        PatternKeys(s) ==
            { k \in (s + 1)..Len(t) :
                IsSectionsKey(t, k) /\ BraceFree(s, k) /\ PatternBrackets(k) # {} }
        starts == { s \in 1..Len(t) : t[s] = "{" /\ PatternKeys(s) # {} }
    IN  IF starts = {} THEN None
        ELSE LET s == Smallest(starts)
                 k == Largest(PatternKeys(s))
                 b == Largest(PatternBrackets(k))
             IN  SubSeq(t, s, PatternEnd(b))

(***************************************************************************)
(* The three tries.  tried lists, in order, the strategies that ran, each  *)
(* with the text it handed to json.loads: <<strategy, outcome, text>>.     *)
(***************************************************************************)
\* Try 2 for the match of the handler's pattern (None: no match)
Try2(match) ==
    LET data == IF match = None THEN None ELSE json_loads(match)
    IN  [data |-> data,
         tried |-> << <<"regex",
                        IF match = None THEN "no match"
                        ELSE IF data = None THEN "failed" ELSE "ok",
                        match>> >>]

\* the guard of Try 3
NeedsFixAlways(data, t) == t # <<>> /\ t[1] = "{"
NeedsFix(data, t) == Falsy(data) /\ t # <<>> /\ t[1] = "{"

\* Try 3 after Try 2 gave second, fix incomplete JSON: fixed_json is
\* response[:last_complete + 2], last_complete being response.rfind of a
\* quote followed by "}", balanced by at most one "]" and one "}".
\* last_complete > 0 counts characters from 0: the pair is found and is not
\* at the start.
Try3(second, t) ==
    IF ~NeedsFix(second.data, t) THEN second
    ELSE LET pairs == {i \in 1..(Len(t) - 1) : t[i] = "Q" /\ t[i + 1] = "}"}
             last_complete == IF pairs = {} THEN 0 ELSE Largest(pairs)
             Balance(u, opening, closing) ==
                 IF Count(u, opening) > Count(u, closing) THEN Append(u, closing) ELSE u
             fixed_json ==
                 Balance(Balance(SubSeq(t, 1, last_complete + 1), "[", "]"), "{", "}")
             fixed == json_loads(fixed_json)
         IN  IF last_complete > 1
             THEN [data |-> IF fixed = None THEN second.data ELSE fixed,
                   tried |-> Append(second.tried,
                                    <<"fix", IF fixed = None THEN "failed" ELSE "ok",
                                      fixed_json>>)]
             ELSE [data |-> second.data,
                   tried |-> Append(second.tried, <<"fix", "no quote-brace", None>>)]

RepairJson(handler, t) ==
    IF JsonOk(t) THEN [data |-> json_loads(t), tried |-> << <<"direct", "ok", t>> >>]
    ELSE LET rest == Try3(Try2(IF handler = "generate_outline"
                               THEN OutlineRegexMatch(t) ELSE JsonPatternMatch(t)), t)
         IN  [data |-> rest.data, tried |-> << <<"direct", "failed", t>> >> \o rest.tried]

\* response[:500]: the whole tokens that fit, and how many characters of
\* the next token
PreviewChars == 500

Preview(t) ==
    LET n == Largest({k \in 0..Len(t) : SpanLen(t, 1, k) <= PreviewChars})
    IN  [tokens |-> SubSeq(t, 1, n),
         more |-> IF n = Len(t) THEN 0 ELSE PreviewChars - SpanLen(t, 1, n)]

(***************************************************************************)
(* generate_presentation_gamma_style: the text handed to json.loads        *)
(***************************************************************************)
\* content.split(opening)[1].split(fence)[0].strip() for the opening
\* (a fence with the tag, else a bare fence) that the content holds
GammaContent(t) ==
    LET content == Strip(t)
        Fences(i, tagged) ==
            {j \in i..Len(content) :
                /\ content[j] = "FENCE"
                /\ tagged => (j + 1 <= Len(content) /\ content[j + 1] = "json")}
        InsideFence(p, len) ==
            LET closing == Fences(p + len, FALSE)
            IN  Strip(SubSeq(content, p + len,
                             IF closing = {} THEN Len(content)
                             ELSE Smallest(closing) - 1))
    IN  IF Fences(1, TRUE) # {} THEN InsideFence(Smallest(Fences(1, TRUE)), 2)
        ELSE IF Fences(1, FALSE) # {} THEN InsideFence(Smallest(Fences(1, FALSE)), 1)
        ELSE content

\* re.search(r'\{.*\}', content, re.DOTALL): from the first "{" to the last "}"
GammaJsonMatch(t) ==
    LET s == Find(t, "{", 1)
        closings == {j \in 1..Len(t) : t[j] = "}"}
    IN  IF s = 0 \/ closings = {} \/ Largest(closings) < s THEN None
        ELSE SubSeq(t, s, Largest(closings))

(***************************************************************************)
(* Model responses as text.  A document is an object with a title and an   *)
(* array of entries under key, written in one of three styles:             *)
(*   "compact"   no blanks        (the form the outline prompt shows)      *)
(*   "spaced"    ", " and ": "    (json.dumps without indent)              *)
(*   "indented"  one member per line                                       *)
(* The content of entry n is the run "c<n>", followed by a citation "[1]"  *)
(* for the variant "cite".                                                 *)
(***************************************************************************)
MaxDocSections == 2

Doc(style, key, variants) ==
    LET Str(run) == <<"Q", run, "Q">>
        Colon == IF style = "compact" THEN <<":">> ELSE <<":", "SP">>
        Comma == CASE style = "compact" -> <<",">>
                   [] style = "spaced" -> <<",", "SP">>
                   [] OTHER -> <<",", "NL", "SP">>
        Open(bracket) ==
            IF style = "indented" THEN <<bracket, "NL", "SP">> ELSE <<bracket>>
        Close(bracket, outermost) ==
            IF style # "indented" THEN <<bracket>>
            ELSE IF outermost THEN <<"NL", bracket>>
            ELSE <<"NL", "SP", bracket>>
        Content(n) ==
            <<"Q", <<"c1", "c2", "c3", "c4">>[n]>>
                \o (IF variants[n] = "cite" THEN <<"[", "1", "]">> ELSE <<>>) \o <<"Q">>
        Entry(n) ==
            (IF n = 1 THEN <<>> ELSE Comma)
                \o Open("{") \o Str("title") \o Colon
                \o Str(<<"t1", "t2", "t3", "t4">>[n]) \o Comma
                \o Str("content") \o Colon \o Content(n) \o Close("}", FALSE)
        RECURSIVE Entries(_)
        Entries(n) == IF n > Len(variants) THEN <<>> ELSE Entry(n) \o Entries(n + 1)
        Array == IF variants = <<>> THEN <<"[", "]">>
                 ELSE Open("[") \o Entries(1) \o Close("]", FALSE)
    IN  Open("{") \o Str("title") \o Colon \o Str("T") \o Comma
            \o Str(key) \o Colon \o Array \o Close("}", TRUE)

\* the key each handler reads the array from
ArrayKey(handler) ==
    IF handler = "generate_presentation_gamma_style" THEN "slides" ELSE "sections"

\* what the model sends around the document, or instead of it
Wrap(kind, doc, cut) ==
    LET Prose == <<"Here", "SP", "is", "SP", "the", "SP", "outline", ":">>
        Commentary == <<"Hope", "SP", "this", "SP", "helps", "!">>
    IN  CASE kind = "whole" -> doc
          [] kind = "cut" -> SubSeq(doc, 1, cut)
          [] kind = "fenced" ->
                Prose \o <<"NL", "FENCE", "json", "NL">> \o doc
                      \o <<"NL", "FENCE", "NL">> \o Commentary
          [] kind = "fenced, no tag" ->
                Prose \o <<"NL", "FENCE", "NL">> \o doc
                      \o <<"NL", "FENCE", "NL">> \o Commentary
          [] kind = "fence only" -> <<"FENCE", "json", "NL">> \o doc \o <<"NL", "FENCE">>
          [] kind = "commentary after" -> doc \o <<"NL">> \o Commentary
          [] kind = "markdown" -> <<"markdown", "NL">> \o doc \o <<"NL">>
          [] kind = "prose" -> Prose
          [] OTHER -> <<"{", "}">>               \* "empty object"

Received(handler, kind, style, variants, cut) ==
    [NoParse EXCEPT !.handler = handler, !.kind = kind, !.style = style,
                    !.variants = variants, !.cut = cut,
                    !.raw = Wrap(kind, Doc(style, ArrayKey(handler), variants), cut),
                    !.ppc = "received"]

ParseHandlers == {"generate_outline", "summarize_document",
                  "generate_presentation_gamma_style"}

\* every handler gets each kind of response in each style; the truncated
\* responses of generate_presentation_gamma_style are compact
ParseInputs ==
    LET Styles == {"compact", "spaced", "indented"}
        VariantLists == UNION { [1..n -> {"plain", "cite"}] : n \in 0..MaxDocSections }
        DocKinds == {"whole", "fenced", "fenced, no tag", "fence only",
                     "commentary after", "markdown"}
        CutStyles(handler) ==
            IF handler = "generate_presentation_gamma_style" THEN {"compact"}
            ELSE Styles
    IN  { Received(h, kind, style, variants, 0) :
            h \in ParseHandlers, kind \in DocKinds, style \in Styles,
            variants \in VariantLists }
        \cup
        { Received(h, kind, "compact", <<>>, 0) :
            h \in ParseHandlers, kind \in {"prose", "empty object"} }
        \cup
        UNION { { Received(hs[1], "cut", hs[2], variants, cut) :
                    cut \in 1..(Len(Doc(hs[2], ArrayKey(hs[1]), variants)) - 1) } :
                hs \in {x \in ParseHandlers \X Styles : x[2] \in CutStyles(x[1])},
                variants \in VariantLists }

(***************************************************************************)
(* Reading the parsed value: data["sections"] / data.get("slides", [])     *)
(***************************************************************************)
\* the value of a member of the object whose member list starts at i (the
\* opening quote of a key), as <<first, last>>, or <<0, 0>> without the key
RECURSIVE FindMember(_, _, _)
FindMember(data, i, key) ==
    LET k == StringEnd(data, i + 1)        \* after the key; data[k] is ":"
        v == ParseValue(data, k + 1)       \* after the value
    IN  IF SubSeq(data, i + 1, k - 2) = <<key>> THEN <<k + 1, v - 1>>
        ELSE IF data[v] = "," THEN FindMember(data, v + 1, key)
        ELSE <<0, 0>>

\* key in data, for a parsed object
HasKey(data, key) ==
    data[1] = "{" /\ data[2] = "Q" /\ FindMember(data, 2, key) # <<0, 0>>

\* the length of the string under key, 0 when data has no such key
MemberLen(data, key) ==
    IF HasKey(data, key)
    THEN LET m == FindMember(data, 2, key)
         IN  SpanLen(data, m[1] + 1, m[2] - 1)
    ELSE 0

\* the array under key as a list of objects, <<>> when it is empty
MemberArray(data, key) ==
    LET m == FindMember(data, 2, key)
        \* the elements from the one that starts at i
        RECURSIVE Elements(_)
        Elements(i) ==
            LET v == ParseValue(data, i)
            IN  <<SubSeq(data, i, v - 1)>>
                    \o (IF data[v] = "," THEN Elements(v + 1) ELSE <<>>)
    IN  IF m[2] = m[1] + 1 THEN <<>> ELSE Elements(m[1] + 1)

\* the parsed object as the outline handlers read it
AsResponse(data) ==
    IF ~HasKey(data, "sections") THEN [hasSections |-> FALSE, sections |-> <<>>]
    ELSE LET entries == MemberArray(data, "sections")
         IN  [hasSections |-> TRUE,
              sections |-> [i \in 1..Len(entries) |->
                  [id |-> i, titleLen |-> MemberLen(entries[i], "title"),
                   content |-> IF MemberLen(entries[i], "content") = 0 THEN <<>>
                               ELSE << [bullet |-> FALSE,
                                        len |-> MemberLen(entries[i], "content")] >>,
                   null |-> "none"]]]

\* the parsed object as generate_presentation_gamma_style reads it
AsAnswer(data) ==
    IF ~HasKey(data, "slides")
    THEN [kind |-> "parsed", slidesKey |-> "absent", slides |-> <<>>]
    ELSE LET entries == MemberArray(data, "slides")
         IN  [kind |-> "parsed", slidesKey |-> "list",
              slides |-> [i \in 1..Len(entries) |->
                  NewSlide([src |-> "model", n |-> i,
                            len |-> MemberLen(entries[i], "title")],
                           Text(0, MemberLen(entries[i], "content")),
                           Absent, Absent, NoChartData)]]

(***************************************************************************)
(* The handlers, from the model's text to what they return                 *)
(***************************************************************************)
\* generate_outline / summarize_document (outline mode)
OutlineFromText(handler, parseMsg, missingMsg) ==
    /\ parse.ppc = "received"
    /\ parse.handler = handler
    /\ \E cleaned \in {CleanResponse(parse.raw)} :
       \E repaired \in {RepairJson(handler, cleaned)} :
           IF Falsy(repaired.data)
           THEN /\ parse' = [parse EXCEPT !.ppc = "raised", !.cleaned = cleaned,
                                          !.tried = repaired.tried,
                                          !.data = repaired.data,
                                          !.error = parseMsg,
                                          !.preview = Preview(cleaned)]
                /\ outline' = [status |-> "raised", handler |-> handler,
                               sections |-> <<>>, error |-> parseMsg]
                /\ opc' = "raised"
                /\ UNCHANGED response
           ELSE /\ parse' = [parse EXCEPT !.ppc = "parsed", !.cleaned = cleaned,
                                          !.tried = repaired.tried,
                                          !.data = repaired.data]
                /\ response' = AsResponse(repaired.data)
                /\ outline' = EnforceSchema(handler, missingMsg, response')
                /\ opc' = outline'.status
    /\ UNCHANGED <<mvars, dvars>>

generate_outline_from_text ==
    OutlineFromText("generate_outline", "Failed to parse JSON. Response: ",
                    "Invalid response - missing sections")

summarize_document_from_text ==
    OutlineFromText("summarize_document", "Failed to parse JSON. Response preview: ",
                    "Missing 'sections' key in response")

\* the call is generate_presentation_gamma_style(topic, num_slides=10) for a
\* topic of six characters
generate_presentation_gamma_style ==
    /\ parse.ppc = "received"
    /\ parse.handler = "generate_presentation_gamma_style"
    /\ \E content \in {GammaContent(parse.raw)} :
       \E json_match \in {GammaJsonMatch(content)} :
       \E data \in {IF json_match = None THEN None ELSE json_loads(json_match)} :
       \E answer \in {IF json_match = None
                      THEN [kind |-> "no_json", slidesKey |-> "absent", slides |-> <<>>]
                      ELSE IF data = None
                      THEN [kind |-> "bad_json", slidesKey |-> "absent", slides |-> <<>>]
                      ELSE AsAnswer(data)} :
           /\ parse' = [parse EXCEPT
                          !.ppc = IF data = None THEN "fallback" ELSE "parsed",
                          !.cleaned = content,
                          !.tried = IF json_match = None THEN <<>>
                                    ELSE << <<"regex", IF data = None THEN "failed" ELSE "ok",
                                              json_match>> >>,
                          !.data = data,
                          !.error = IF json_match = None THEN "No valid JSON found"
                                    ELSE IF data = None THEN "JSONDecodeError" ELSE ""]
           /\ slides' = gamma_style_slides([num_slides |-> 10, topicLen |-> 6,
                                            answer |-> answer])
    /\ UNCHANGED <<response, opc, outline, current_hf_model, enhanced, idx, mpc, caller,
                   attempts, image, cancelled, dvars>>

InitParse ==
    /\ parse \in ParseInputs
    /\ response = [hasSections |-> FALSE, sections |-> <<>>]
    /\ opc = "idle"
    /\ outline = NoOutline
    /\ MediaIdle
    /\ DeckIdle

NextParse ==
    \/ generate_outline_from_text
    \/ summarize_document_from_text
    \/ generate_presentation_gamma_style

SpecParse == InitParse /\ [][NextParse]_vars

(***************************************************************************)
(* SpecHeight: one call of _calculate_dynamic_height.  The slide is        *)
(* slides[1]: a content of `marks` markers and newlines and `extra` other  *)
(* characters, a title, and one of the chartData shapes.                   *)
(***************************************************************************)
MaxMarks == 16

ExtraChars == {0, 90, 199, 200, 410, 3000}

HeightInputs ==
    { NewSlide([src |-> "model", n |-> 1, len |-> tl],
               [null |-> FALSE, marks |-> b, len |-> b + x, kw |-> "none"],
               "prompt", Absent, cd) :
        tl \in {0, 24}, b \in 0..MaxMarks, x \in ExtraChars, cd \in ChartShapes } \cup
    { NewSlide(ModelTitle(1), NullContent, "prompt", Absent, NotNeeded) }

\* slide["height"] = self._calculate_dynamic_height(slide)
calculate_height ==
    /\ dynamic_height.status = "called"
    /\ dynamic_height' =
          IF HeightRaises(slides[1])
          THEN [status |-> "raised", value |-> 0]
          ELSE [status |-> "returned", value |-> calculate_dynamic_height(slides[1])]
    /\ UNCHANGED <<request, env, pc, deck, reply, ovars, mvars>>

InitHeight ==
    /\ slides \in { <<s>> : s \in HeightInputs }
    /\ dynamic_height = [status |-> "called", value |-> 0]
    /\ current_hf_model = hf_image_models[1]
    /\ enhanced = <<>>
    /\ idx = 0
    /\ mpc = "none"
    /\ caller = "none"
    /\ attempts = <<>>
    /\ image = NoImage
    /\ cancelled = FALSE
    /\ request = NoRequest
    /\ env = NoEnv
    /\ pc = "none"
    /\ deck = NoDeck
    /\ reply = NoReply
    /\ OutlineIdle

NextHeight == calculate_height

SpecHeight == InitHeight /\ [][NextHeight]_vars

(***************************************************************************)
(* Properties of the section validation (SpecOutline)                      *)
(***************************************************************************)
\* the entries of the model response that the validation keeps, by position
ValidIds ==
    LET ok(e) == e.titleLen >= 5 /\ ContentLen(e.content) >= 20
        kept == SelectSeq(response.sections, ok)
    IN  [j \in 1..Len(kept) |-> kept[j].id]

\* every title and content of the response is a string (no JSON null)
AllStrings == \A i \in 1..Len(response.sections) : response.sections[i].null = "none"

\* entry j of the output is entry i of the response, title untouched and the
\* content in its validated (bullet-formatted) form
IsValidatedEntry(out, i) ==
    /\ out.kind = "model"
    /\ out.id = i
    /\ out.titleLen = response.sections[i].titleLen
    /\ out.content = NormalizeBullets(response.sections[i].content)

\* C8: with k valid sections, 1 <= k < 8, the output has exactly 8 sections:
\* the k valid ones first, in their original order and unchanged, then 8 - k
\* synthesized fillers.
C8_PadToEight ==
    (opc = "returned" /\ Len(ValidIds) >= 1 /\ Len(ValidIds) < 8) =>
        /\ Len(outline.sections) = 8
        /\ \A j \in 1..Len(ValidIds) : IsValidatedEntry(outline.sections[j], ValidIds[j])
        /\ \A j \in (Len(ValidIds) + 1)..8 :
              /\ outline.sections[j].kind = "filler"
              /\ outline.sections[j] = FillerSection(outline.handler, j)

C8_Witness ==
    /\ opc = "returned"
    /\ Len(ValidIds) = 5
    /\ Len(response.sections) = 7
    /\ Len(outline.sections) = 8
    /\ outline.sections[5].kind = "model"
    /\ outline.sections[6].kind = "filler"

\* C9: with more than 15 valid sections the output is exactly the first 15
\* valid sections in their original relative order, and holds no filler.
C9_TruncateToFifteen ==
    (opc = "returned" /\ Len(ValidIds) > 15) =>
        /\ Len(outline.sections) = 15
        /\ \A j \in 1..15 : IsValidatedEntry(outline.sections[j], ValidIds[j])

C9_Witness ==
    /\ opc = "returned"
    /\ Len(ValidIds) = 16
    /\ Len(response.sections) = 17
    /\ Len(outline.sections) = 15
    /\ outline.sections[15].id = ValidIds[15]

AsSections(out) ==
    [i \in 1..Len(out) |->
        [id |-> i, titleLen |-> out[i].titleLen, content |-> out[i].content,
         null |-> "none"]]

\* C11: section validation is idempotent: applied to its own output list it
\* returns the same list, entry for entry, nothing dropped, re-padded,
\* truncated or rewritten, also for entries that were bullet-normalized.
C11_ValidationIdempotent ==
    opc = "returned" =>
        LET again == EnsureSections(outline.handler, AsSections(outline.sections))
        IN  /\ Len(again) = Len(outline.sections)
            /\ \A i \in 1..Len(again) :
                  /\ again[i].kind = "model"
                  /\ again[i].id = i
                  /\ again[i].titleLen = outline.sections[i].titleLen
                  /\ again[i].content = outline.sections[i].content

\* C12: an entry whose title or content is missing, null, empty or too short
\* is dropped without failing the operation, and every other entry is kept
\* (up to the cut at 15).
C12_NoiseDroppedSilently ==
    (opc # "idle" /\ response.hasSections /\ response.sections # <<>>) =>
        /\ opc = "returned"
        /\ LET kept == SelectSeq(outline.sections, LAMBDA e : e.kind = "model")
           IN  /\ Len(kept) = Min(MaxSectionsOut, Len(ValidIds))
               /\ \A j \in 1..Len(kept) : kept[j].id = ValidIds[j]

(***************************************************************************)
(* Properties of media resolution (SpecMedia)                              *)
(***************************************************************************)
Last(seq) == seq[Len(seq)]

MediaReturned == caller = "_add_media_assets" /\ mpc = "done"

\* the chartData shapes C2 lists: absent, or a dict of any shape
ListedShape(slide) == slide.chartData.kind # "null" /\ ~slide.content.null

\* needed is true and type, labels and values are present
OnChartPath(slide) ==
    /\ slide.chartData.kind = "dict" /\ slide.chartData.needed
    /\ slide.chartData.hasType /\ slide.chartData.hasLabels /\ slide.chartData.hasValues

\* C2: after _add_media_assets every slide has exactly one of imageUrl and
\* chartUrl non-empty, never both and never neither.
C2_ExactlyOneAsset ==
    MediaReturned =>
        \A i \in 1..Len(slides) :
            ListedShape(slides[i]) =>
                (NonEmpty(slides[i].imageUrl) # NonEmpty(slides[i].chartUrl))

PollinationsUrls ==
    { "https://image.pollinations.ai/prompt/prompt",
      "https://image.pollinations.ai/prompt/title",
      "https://image.pollinations.ai/prompt/professional%20presentation%20background" }

\* no Hugging Face request is outstanding and none succeeded
AllHfFailed ==
    /\ attempts # <<>>
    /\ \A k \in 1..Len(attempts) :
          attempts[k].provider # "pollinations" =>
              attempts[k].outcome \in {"failed", "raised"}

\* C4: when the primary and every alternate Hugging Face attempt failed, in
\* whatever way, the image is the Pollinations URL reference: non-empty, and
\* the caller got it as a normal result.
C4_AllFailGivesUrlFallback ==
    AllHfFailed =>
        /\ Last(attempts).provider = "pollinations"
        /\ caller = "generate_image" =>
              /\ mpc = "done"
              /\ image.status = "returned"
              /\ image.url \in PollinationsUrls
        /\ caller = "_add_media_assets" =>
              /\ enhanced # <<>>
              /\ slides[Last(enhanced)].imageUrl \in PollinationsUrls
              /\ NonEmpty(slides[Last(enhanced)].imageUrl)

C4_Witness ==
    /\ caller = "_add_media_assets"
    /\ AllHfFailed
    /\ Len(attempts) = 4
    /\ enhanced # <<>>
    /\ slides[Last(enhanced)].imageUrl = "https://image.pollinations.ai/prompt/prompt"

\* C5: the providers are tried in a fixed order, the primary model, then at
\* most two alternates, none of them the primary, then the URL fallback; a
\* provider is tried only if every earlier attempt failed, and the image
\* delivered is the one of the first (and only) successful attempt.
C5_ProviderOrder ==
    LET n == Len(attempts)
        isHf(k) == attempts[k].provider # "pollinations"
        delivered == IF caller = "generate_image" THEN image.url
                     ELSE slides[Last(enhanced)].imageUrl
    IN  n >= 1 =>
        /\ attempts[1].provider = current_hf_model
        /\ \A k \in 2..n : isHf(k) =>
              /\ attempts[k].provider # current_hf_model
              /\ attempts[k].provider \in {hf_image_models[1], hf_image_models[2]}
              /\ k <= 3
        /\ \A j, k \in 1..n : (j < k /\ isHf(j) /\ isHf(k)) =>
              /\ attempts[j].provider # attempts[k].provider
              /\ (j >= 2 =>
                    /\ attempts[j].provider = hf_image_models[1]
                    /\ attempts[k].provider = hf_image_models[2])
        /\ \A k \in 1..n : ~isHf(k) =>
              /\ k = n
              /\ \A m \in {hf_image_models[1], hf_image_models[2]} \ {current_hf_model} :
                    \E j \in 2..(n - 1) : attempts[j].provider = m
        /\ \A k \in 1..(n - 1) : attempts[k].outcome = "failed"
        /\ attempts[n].outcome = "ok" =>
              delivered = "data:image/png;base64," \o attempts[n].provider
        /\ attempts[n].outcome = "url" => delivered \in PollinationsUrls
        /\ attempts[n].outcome \in {"pending", "ok", "url"}

C5_Witness ==
    /\ caller = "_add_media_assets"
    /\ current_hf_model = hf_image_models[3]
    /\ Len(attempts) = 3
    /\ attempts[3].provider = hf_image_models[2]
    /\ attempts[3].outcome = "ok"
    /\ slides[Last(enhanced)].imageUrl = "data:image/png;base64," \o hf_image_models[2]

\* C6: a slide on the chart path whose chart could not be rendered gets the
\* empty chartUrl marker and then an image, so it ends with a non-empty
\* imageUrl.
C6_RenderFailureFallsToImage ==
    MediaReturned =>
        \A i \in 1..Len(slides) :
            (OnChartPath(slides[i]) /\ ~NonEmpty(slides[i].chartUrl)) =>
                /\ slides[i].chartUrl = ""
                /\ NonEmpty(slides[i].imageUrl)

\* C7: a slide that leaves media resolution with a non-empty chartUrl was
\* rendered from chartData whose labels and values have the same length,
\* at least 1.
C7_ChartUrlImpliesValidSpec ==
    \A k \in 1..Len(enhanced) :
        LET slide == slides[enhanced[k]] IN
        NonEmpty(slide.chartUrl) =>
            /\ slide.chartData.kind = "dict"
            /\ Len(slide.chartData.labels) = Len(slide.chartData.values)
            /\ Len(slide.chartData.labels) >= 1

C7_Witness ==
    /\ MediaReturned
    /\ \E i \in 1..Len(slides) :
          /\ slides[i].chartUrl = ChartDataUrl
          /\ slides[i].imageUrl = ""
          /\ Len(slides[i].chartData.labels) = 2

(***************************************************************************)
(* Properties of generate_presentation (Spec)                              *)
(***************************************************************************)
SlideCountOk ==
    deck.metadata.totalSlides = Len(deck.slides)

C3_TopicPathNeverRaises ==
    /\ request.path = "topic"
    /\ \A i \in 1..Len(request.answer.slides) : ~request.answer.slides[i].content.null
    => pc # "raised"

\* the slides handed to media resolution carry the texts and chart
\* specifications of `expected`
SameSlides(expected) ==
    /\ Len(slides) = Len(expected)
    /\ \A i \in 1..Len(slides) :
          /\ slides[i].title = expected[i].title
          /\ slides[i].content = expected[i].content
          /\ slides[i].chartData = expected[i].chartData

\* the deck-level fallback of the path taken
FallbackTaken ==
    IF request.path = "topic"
    THEN SameSlides(create_intelligent_fallback(request.topicLen,
                                                ClampSlides(request.num_slides)))
    ELSE SameSlides(create_fallback_from_outline(request.outline_sections))

\* C13: a parsed object without a 'slides' array key is a hard schema
\* failure: the deck-level fallback is taken (or an error raised), it is never
\* accepted as an empty list and padded into a deck.
C13_MissingArrayIsHardFailure ==
    (/\ pc # "idle"
     /\ request.answer.kind = "parsed"
     /\ request.answer.slidesKey \in {"absent", "nested"}) => FallbackTaken

\* C17: after a failed model call or a response without a parseable JSON
\* object, generate_presentation_gamma_style returns the synthesized fallback
\* deck, of 8 to 15 slides for every requested num_slides, and nothing is
\* raised.
C17_FailedCallGivesFallback ==
    (/\ pc # "idle"
     /\ request.path = "topic"
     /\ request.answer.kind \in {"call_failed", "no_json", "bad_json"}) =>
        /\ pc # "raised"
        /\ 8 <= Len(slides) /\ Len(slides) <= 15
        /\ \A i \in 1..Len(slides) : slides[i].title.src = "fallback"

\* C17 witness: the model call failed for a request of 20 slides and the
\* eleven slides of the fallback deck were returned.
C17_Witness ==
    /\ pc = "returned"
    /\ request.path = "topic"
    /\ request.answer.kind = "call_failed"
    /\ request.num_slides = 20
    /\ Len(deck.slides) = 11
    /\ deck.slides[11].title.src = "fallback"

(***************************************************************************)
(* Frame and cancellation of media resolution (SpecMedia)                  *)
(***************************************************************************)
\* slide `after` differs from slide `before` in imageUrl and chartUrl at most
AssetsOnly(before, after) ==
    [after EXCEPT !.imageUrl = before.imageUrl, !.chartUrl = before.chartUrl] = before

\* C19: media resolution of slide i changes only imageUrl and chartUrl of
\* slide i; title, content, layout, chartData, imagePrompt and id of slide i
\* (a slide that came with a layout) and every field of every other slide
\* stay as they were.
C19_OnlyAssetFields ==
    [][\A i \in 1..Len(slides) :
          IF i # idx THEN slides'[i] = slides[i]
          ELSE slides[i].layout # Absent => AssetsOnly(slides[i], slides'[i])]_vars

\* C20: once the task was cancelled during an awaited Hugging Face request,
\* the pipeline is aborted: no provider request is outstanding afterwards
\* and no slide list or image is returned.
C20_CancelAborts ==
    cancelled => (mpc # "hf_wait" /\ mpc # "done")

(***************************************************************************)
(* Properties of generate_presentation_from_prompt (SpecHandler)           *)
(***************************************************************************)
\* C18: the handler body returns a presentation of 8 to 15 slides for any
\* requested num_slides (None, below 8, above 15), whether the AI service
\* returned or raised; when it raised, the fallback presentation has
\* exactly clamp(num_slides, 8, 15) slides (10 for None).
C18_HandlerSlideCount ==
    reply.status = "returned" =>
        /\ 8 <= Len(reply.slides) /\ Len(reply.slides) <= 15
        /\ pc = "raised" =>
              /\ reply.source = "fallback"
              /\ Len(reply.slides) =
                    (IF ~request.asked.given THEN 10
                     ELSE IF request.asked.value < 8 THEN 8
                     ELSE IF request.asked.value > 15 THEN 15
                     ELSE request.asked.value)

\* C18 witness: 20 slides were asked for, the AI service raised, and the
\* fallback presentation of 15 slides was returned.
C18_Witness ==
    /\ reply.status = "returned"
    /\ pc = "raised"
    /\ request.asked = [given |-> TRUE, value |-> 20]
    /\ Len(reply.slides) = 15
    /\ reply.slides[15].title.src = "main_fallback"

(***************************************************************************)
(* Properties of the response clean-up and the JSON repair (SpecParse)     *)
(***************************************************************************)
OutlineHandlers == {"generate_outline", "summarize_document"}

\* an outline handler is through with the response it received
OutlineParseDone == parse.handler \in OutlineHandlers /\ parse.ppc # "received"

\* the document the response was made from
SentDoc == Doc(parse.style, ArrayKey(parse.handler), parse.variants)

\* the tokens that close the array and the object of the document
ClosingLen == IF parse.style = "indented" THEN 5 ELSE 2

\* the position of the "}" that closes entry n of the document
EntryEnd(n) ==
    Len(Doc(parse.style, ArrayKey(parse.handler), SubSeq(parse.variants, 1, n)))
        - ClosingLen

\* the position of the "]" that closes the array of the document
ArrayEnd == Len(SentDoc) - (IF parse.style = "indented" THEN 2 ELSE 1)

\* the entries that were fully closed before the cut
ClosedEntries == Cardinality({n \in 1..Len(parse.variants) : EntryEnd(n) <= parse.cut})

\* pv is text[:PreviewChars]
IsPreviewOf(pv, text) ==
    LET k == Len(pv.tokens)
    IN  /\ k <= Len(text)
        /\ pv.tokens = SubSeq(text, 1, k)
        /\ pv.more >= 0
        /\ SpanLen(text, 1, k) + pv.more = Min(PreviewChars, SpanLen(text, 1, Len(text)))
        /\ k < Len(text) => pv.more < TokLen(text[k + 1])

\* C14: the JSON repair of generate_outline and summarize_document is a
\* strict escalation. The direct parse of the cleaned response comes first;
\* the regex extraction runs only after the direct parse failed; the
\* truncation repair runs only after both failed; a strategy that succeeds
\* is the last one to run and its value is the parsed object; if none
\* succeeds the handler raises "Failed to parse JSON" with the first 500
\* characters of the cleaned response.
C14_StrictEscalation ==
    OutlineParseDone =>
        LET tried == parse.tried
            n == Len(tried)
        IN  /\ 1 <= n /\ n <= 3
            /\ tried[1][1] = "direct" /\ tried[1][3] = parse.cleaned
            /\ n >= 2 => tried[1][2] = "failed" /\ tried[2][1] = "regex"
            /\ n >= 3 => tried[2][2] # "ok" /\ tried[3][1] = "fix"
            /\ \A i \in 1..n :
                  tried[i][2] = "ok" => i = n /\ parse.data = json_loads(tried[i][3])
            /\ parse.ppc = "parsed" => tried[n][2] = "ok"
            /\ tried[n][2] # "ok" =>
                  /\ parse.ppc = "raised"
                  /\ outline.status = "raised"
                  /\ outline.error \in {"Failed to parse JSON. Response: ",
                                        "Failed to parse JSON. Response preview: "}
                  /\ IsPreviewOf(parse.preview, parse.cleaned)

\* C14 witness: a cleaned response of more than 500 characters went through
\* all three strategies, none succeeded, and the handler raised with the
\* first 500 characters.
C14_Witness ==
    /\ OutlineParseDone
    /\ Len(parse.tried) = 3
    /\ parse.tried[3][1] = "fix" /\ parse.tried[3][2] # "ok"
    /\ parse.ppc = "raised"
    /\ SpanLen(parse.cleaned, 1, Len(parse.cleaned)) > PreviewChars
    /\ SpanLen(parse.preview.tokens, 1, Len(parse.preview.tokens)) + parse.preview.more
          = PreviewChars

\* C15: for an outline document cut inside its sections array after at
\* least one entry was closed, the repair yields a parseable object whose
\* sections are exactly the entries closed before the cut, in order.
C15_TruncationRecovered ==
    (/\ OutlineParseDone
     /\ parse.kind = "cut"
     /\ ClosedEntries >= 1
     /\ parse.cut < ArrayEnd)
    => /\ parse.ppc = "parsed"
       /\ response.hasSections
       /\ response.sections =
             AsResponse(json_loads(Doc(parse.style, "sections",
                                  SubSeq(parse.variants, 1, ClosedEntries)))).sections

\* C16: for a response made of prose, a fenced block holding a valid JSON
\* object, and trailing commentary, clean-up and repair recover exactly
\* the fenced object, in generate_outline, summarize_document and
\* generate_presentation_gamma_style.
C16_FencedObjectRecovered ==
    (parse.kind \in {"fenced", "fenced, no tag"} /\ parse.ppc # "received")
    => /\ parse.ppc = "parsed"
       /\ parse.data = json_loads(SentDoc)

(***************************************************************************)
(* Properties of _calculate_dynamic_height (SpecHeight)                    *)
(***************************************************************************)
\* the call returned: content is a string and chartData a dict or absent
HeightReturned == dynamic_height.status = "returned"

\* b, t and c of a slide
BulletsOf(slide) == slide.content.marks
TextOf(slide) == slide.content.len + slide.title.len
ChartOf(slide) == IF slide.chartData.kind = "dict" /\ slide.chartData.needed THEN 1 ELSE 0

\* C21: for a slide with a string content and a chartData that is a dict or
\* absent, _calculate_dynamic_height returns
\* min(1400, max(800, 800 + 40*b + 50*floor(t/200) + 300*c)); the value lies
\* in 800..1400, is 800 for an empty slide, and no slide with at least as
\* many bullets, as much text and as much chart has a smaller height.
C21_HeightFormula ==
    HeightReturned =>
        LET slide == slides[1]
            h == dynamic_height.value
        IN  /\ h = Min(1400, Max(800, 800 + 40 * BulletsOf(slide)
                                          + 50 * (TextOf(slide) \div 200)
                                          + 300 * ChartOf(slide)))
            /\ h \in 800..1400
            /\ (BulletsOf(slide) = 0 /\ TextOf(slide) = 0 /\ ChartOf(slide) = 0) => h = 800
            /\ \A more \in HeightInputs :
                    (/\ ~HeightRaises(more)
                     /\ BulletsOf(more) >= BulletsOf(slide)
                     /\ TextOf(more) >= TextOf(slide)
                     /\ ChartOf(more) >= ChartOf(slide))
                    => calculate_dynamic_height(more) >= h

\* C21 witness: a slide with text, bullets and a chart whose sum passes the
\* upper limit got 1400
C21_Witness ==
    /\ HeightReturned
    /\ BulletsOf(slides[1]) = 8 /\ TextOf(slides[1]) >= 400 /\ ChartOf(slides[1]) = 1
    /\ dynamic_height.value = 1400

(***************************************************************************)
(* Properties of the returned deck (Spec)                                  *)
(***************************************************************************)
DeckReturned == pc = "returned"

\* the slide of _add_media_assets that became deck slide k
Enhanced(k) == slides[enhanced[k]]

\* C22: in a returned deck every slide has a non-empty id, the ids are
\* pairwise distinct, a slide that came with a non-empty id has kept it and
\* every other slide has the id built from its 1-based position and the
\* timestamp.
C22_UniqueIds ==
    DeckReturned =>
        /\ \A k \in 1..Len(deck.slides) :
              /\ NonEmpty(deck.slides[k].id)
              /\ deck.slides[k].id =
                    IF NonEmpty(Enhanced(k).id) THEN Enhanced(k).id
                    ELSE "slide_" \o ToString(k) \o "_ts"
        /\ \A j, k \in 1..Len(deck.slides) :
              j # k => deck.slides[j].id # deck.slides[k].id

\* the ids are pairwise distinct in every deck none of whose slides came
\* with an id of its own
AssignedIdsDistinct ==
    (DeckReturned /\ \A k \in 1..Len(deck.slides) : ~NonEmpty(Enhanced(k).id)) =>
        \A j, k \in 1..Len(deck.slides) : j # k => deck.slides[j].id # deck.slides[k].id

\* C23: in a returned deck metadata.hasCharts is true exactly when some
\* slide has a non-empty chartUrl, and metadata.hasImages is true exactly
\* when some slide has a non-empty imageUrl.
C23_PresenceFlagsAccurate ==
    DeckReturned =>
        /\ deck.metadata.hasCharts <=>
              \E k \in 1..Len(deck.slides) : NonEmpty(deck.slides[k].chartUrl)
        /\ deck.metadata.hasImages <=>
              \E k \in 1..Len(deck.slides) : NonEmpty(deck.slides[k].imageUrl)

\* the step of _add_media_assets in which _render_chart is called for the
\* slide in work (line 1158)
RenderCall ==
    /\ mpc = "slide"
    /\ slides[idx].chartData.kind = "dict"
    /\ slides[idx].chartData.needed
    /\ slides[idx].chartData.hasType
    /\ slides[idx].chartData.hasLabels
    /\ slides[idx].chartData.hasValues
    /\ enhanced' = Append(enhanced, idx)

\* C24: in generate_presentation a chartData with needed = true that is
\* invalid has been replaced by a valid one before a render attempt:
\* _render_chart is only called with a spec that has type, labels and values
\* and len(labels) = len(values) >= 1.
C24_RenderOnlyValidSpec ==
    [][RenderCall => is_valid_chart_data(slides[idx].chartData)]_vars

(***************************************************************************)
(* Properties of _generate_from_outline_sections (Spec, outline path)      *)
(***************************************************************************)
\* _generate_from_outline_sections has returned; slides holds its slides
\* (media resolution changes neither their number nor their titles)
OutlineSlidesBuilt == request.path = "outline" /\ pc # "idle"

\* C25: _generate_from_outline_sections called with n >= 1 sections returns
\* exactly n slides and slide i has the title of section i, whether the
\* model returned fewer, more or n slides or the call or the parsing failed.
C25_OneSlidePerSection ==
    OutlineSlidesBuilt =>
        /\ Len(slides) = Len(request.outline_sections)
        /\ \A i \in 1..Len(slides) :
              slides[i].title = SectionTitle(request.outline_sections[i], i)

\* C25 witness: the model returned more slides than there are sections and
\* the result holds one slide per section
C25_Witness ==
    /\ OutlineSlidesBuilt
    /\ request.answer.kind = "parsed" /\ request.answer.slidesKey = "list"
    /\ Len(request.answer.slides) > Len(request.outline_sections)
    /\ Len(request.outline_sections) >= 3
    /\ Len(slides) = Len(request.outline_sections)
    /\ slides[3].title = SectionTitle(request.outline_sections[3], 3)

(***************************************************************************)
(* Order of media resolution (SpecMedia)                                   *)
(***************************************************************************)
MediaRunning == caller = "_add_media_assets" /\ mpc \in {"sleep", "slide", "hf_wait"}

\* enhanced holds the slides 1..Len(enhanced) in their input positions; the
\* slide in work is the one after them; at the return none is missing
InOrder ==
    /\ caller = "_add_media_assets" => \A k \in 1..Len(enhanced) : enhanced[k] = k
    /\ MediaRunning => Len(enhanced) = idx - 1
    /\ MediaReturned => Len(enhanced) = Len(slides)

\* the work on a slide after the first starts from the inter-slide delay,
\* which starts when the slide before has been appended; no step changes
\* the number of slides, a title or a content
DelayBetween ==
    /\ (caller = "_add_media_assets" /\ mpc # "slide" /\ mpc' = "slide" /\ idx' > 1)
         => (mpc = "sleep" /\ idx' = idx /\ Len(enhanced) = idx - 1)
    /\ (mpc # "sleep" /\ mpc' = "sleep")
         => (enhanced' = Append(enhanced, idx) /\ idx' = idx + 1)
    /\ (caller = "_add_media_assets" /\ idx' # idx)
         => (idx' = idx + 1 /\ enhanced' = Append(enhanced, idx) /\ mpc' = "sleep")
    /\ Len(slides') = Len(slides)
    /\ \A i \in 1..Len(slides) :
          slides'[i].title = slides[i].title /\ slides'[i].content = slides[i].content

\* C26: _add_media_assets works on one slide at a time in input order: slide
\* i+1 is started only after slide i was appended and the delay has passed;
\* the returned list has the length of the input and the same slides in the
\* same positions, also when a chart render or an image resolution failed.
C26_SequentialInOrder == []InOrder /\ [][DelayBetween]_vars

\* C26 witness: two slides were returned in order, the first with a chart
\* that could not be rendered, the second after a failed image provider
C26_Witness ==
    /\ MediaReturned
    /\ Len(slides) = 2 /\ enhanced = <<1, 2>>
    /\ slides[1].chartData.needed /\ slides[1].chartUrl = "" /\ slides[1].imageUrl = ""
    /\ Len(attempts) >= 2 /\ attempts[1].outcome = "failed"

\* C29: in every result of _generate_from_outline_sections the slide at each
\* of the 1-based positions 3, 6, 9, 12, 15 that exists has chartData.needed
\* with a valid chart spec and an empty imagePrompt, also when the model call
\* or the parsing failed.
C29_ChartOnEveryThird ==
    OutlineSlidesBuilt =>
        \A i \in 1..Len(slides) :
            (i - 1) \in chart_positions =>
                /\ slides[i].chartData.kind = "dict" /\ slides[i].chartData.needed
                /\ is_valid_chart_data(slides[i].chartData)
                /\ slides[i].imagePrompt = ""

\* the same where _generate_from_outline_sections got a parsed answer
ChartOnEveryThirdParsed ==
    (request.answer.kind = "parsed" /\ request.answer.slidesKey # "null") =>
        C29_ChartOnEveryThird

(***************************************************************************)
(* Properties of generate_presentation_gamma_style (Spec, topic path)      *)
(***************************************************************************)
\* generate_presentation_gamma_style has returned; slides holds its slides
GammaSlidesBuilt == request.path = "topic" /\ pc # "idle"

\* C27: generate_presentation_gamma_style returns exactly
\* clamp(num_slides, 8, 15) slides, whether the model returned fewer, more
\* or exactly that many, or the fallback deck was used.
C27_GammaExactCount ==
    GammaSlidesBuilt => Len(slides) = ClampSlides(request.num_slides)

\* the same where the fallback deck was not used
GammaExactCountParsed ==
    (request.answer.kind = "parsed" /\ request.answer.slidesKey # "null") =>
        C27_GammaExactCount

\* C28: answered with JSON in the format the prompt asks for (a top-level
\* "presentation" object holding the "slides" array of num_slides slides),
\* generate_presentation_gamma_style returns those slides, in their order
\* and with their titles.
C28_RequestedFormatKept ==
    (/\ GammaSlidesBuilt
     /\ request.answer.kind = "parsed" /\ request.answer.slidesKey = "nested"
     /\ Len(request.answer.slides) = ClampSlides(request.num_slides))
    => /\ Len(slides) = Len(request.answer.slides)
       /\ \A i \in 1..Len(slides) : slides[i].title = request.answer.slides[i].title

(***************************************************************************)
(* Assets in the handler's response (SpecHandler)                          *)
(***************************************************************************)
\* C30: in every response of generate_presentation_from_prompt each slide
\* has exactly one of imageUrl and chartUrl non-empty: no image beside a
\* rendered chart, and an image wherever no chart was rendered.
C30_ExactlyOneAssetInReply ==
    reply.status = "returned" =>
        \A k \in 1..Len(reply.slides) :
            NonEmpty(reply.slides[k].imageUrl) <=> ~NonEmpty(reply.slides[k].chartUrl)

\* no slide of a response has both an image and a chart
NeverBothInReply ==
    reply.status = "returned" =>
        \A k \in 1..Len(reply.slides) :
            ~(NonEmpty(reply.slides[k].imageUrl) /\ NonEmpty(reply.slides[k].chartUrl))
====
